---------------------------- MODULE Spec2Model ----------------------------
(***************************************************************************)
(* A model of the maps.tardis.digital backend services:                    *)
(*   - the row-level-security context middleware and RLSContext            *)
(*     (backend/api/app/core/rlsmiddleware.py),                            *)
(*   - the self-healing ETL wrapper                                        *)
(*     (backend/etl-service/app/self_healing/__init__.py),                 *)
(*   - the job routes and their Celery tasks                               *)
(*     (backend/api/app/routes/jobs.py, backend/api/app/tasks),            *)
(*   - the Redis cache (backend/api/app/core/cache.py),                    *)
(*   - the websocket connection registry                                   *)
(*     (backend/api/app/tasks/websocket_manager.py).                       *)
(* Every subsystem has its own variables and its own specification; the    *)
(* actions of one subsystem leave the variables of the others unchanged.   *)
(***************************************************************************)
EXTENDS Integers, Sequences, FiniteSets, TLC

VARIABLES
    conns,      \* RLS: per pooled connection, the value of app.current_user_id
    reqs,       \* RLS: per request / scoped block, its position and outcome
    sh,         \* self-healing ETL: one call of run_with_healing
    jobs,       \* jobs: the Job rows, by job id
    tasks,      \* jobs: the Celery result backend, by task id
    reply,      \* jobs: the last response of the job routes
    cache,      \* cache: the RedisCache instance (client, statistics, last call)
    store,      \* cache: the Redis server (reachable or not, keys held)
    active_connections, \* websockets: job id -> its subscriber set, if any
    connection_jobs,    \* websockets: websocket -> the job id it subscribed to
    sockets,    \* websockets: the state of each websocket
    dropped,    \* websockets: history, the websockets disconnect() ran for
    bc,         \* websockets: the broadcast call in progress
    rl,         \* rate limits: the last call of get_rate_limit_for_path
    loki,       \* logging: the LokiHandler, its pending batch and last call
    tile,       \* tiling: the last call of determine_strategy
    rowcount,   \* lists: the number of rows of each listed table
    listing,    \* lists: the last answer of a list endpoint
    sources,    \* sources: the rows of core_source, by id
    sreply,     \* sources: the last answer of a Source write route
    layers,     \* projects: the ids of the Layer rows
    projects,   \* projects: the Project rows with their member layers, by id
    preply,     \* projects: the last answer of a Project write route
    kc,         \* the last Keycloak request and the status of its response
    users,      \* the rows of auth_user
    auth,       \* the authenticate calls: position, userinfo and exception
    etl,        \* the process_etl_job task: Celery state, request and what its runs did
    ss,         \* the last semantic search: its inputs and its response
    en,         \* the enrich_data call: position in the batch, API calls made, output
    shp,        \* the shapefile import: position, batches awaited, instances prepared
    geomtable,  \* the committed Geometry rows of the Source, in insertion order
    summary,    \* the cache entry source_attributes_<id>
    csvimp,     \* the CSV import: position in the file, instances created
    csvtable,   \* the Geometry rows the CSV import committed
    features,   \* gids of the core_geometry rows of source 1
    gj,         \* the last call of generate_geojson_feature_collection_v3
    wfs,        \* the last response of the GeoJSON endpoint
    gjcache,    \* the endpoint's cached feature collections, by cache key
    _cache,     \* core/cache.py: the module-level instance, 0 for None
    instances,  \* the RedisCache instances made so far: client and pool
    getcalls,   \* the get_cache calls in progress or returned
    closecalls, \* the close_cache calls in progress
    created_since_close, \* instances made since the last close_cache returned
    disk,       \* the files of the upload directory, by path
    uploads,    \* the upload requests: position, file name, bytes
    task_rows   \* the Task rows of the ETL service

rlsVars == <<conns, reqs>>
jobVars == <<jobs, tasks, reply>>
cacheVars == <<cache, store>>
wsVars == <<active_connections, connection_jobs, sockets, dropped, bc>>
rateVars == <<rl>>
lokiVars == <<loki>>
tilerVars == <<tile>>
listVars == <<rowcount, listing>>
sourceVars == <<sources, sreply>>
projectVars == <<layers, projects, preply>>
keycloakVars == <<kc>>
accountVars == <<users, auth>>
etlVars == <<etl>>
searchVars == <<ss>>
enrichVars == <<en>>
shapefileVars == <<shp, geomtable, summary>>
csvVars == <<csvimp, csvtable>>
geojsonVars == <<features, gj, wfs, gjcache>>
singletonVars == <<_cache, instances, getcalls, closecalls, created_since_close>>
uploadVars == <<disk, uploads, task_rows>>

vars == <<conns, reqs, sh, jobs, tasks, reply, cache, store,
          active_connections, connection_jobs, sockets, dropped, bc,
          rl,
          loki,
          tile,
          rowcount, listing,
          sources, sreply,
          layers, projects, preply,
          kc,
          users, auth,
          etl,
          ss,
          en,
          shp, geomtable, summary,
          csvimp, csvtable,
          features, gj, wfs, gjcache,
          _cache, instances, getcalls, closecalls, created_since_close,
          disk, uploads, task_rows>>

(***************************************************************************)
(* Python's None.                                                          *)
(***************************************************************************)
None == "None"

-----------------------------------------------------------------------------
(***************************************************************************)
(* Row-level-security context (rlsmiddleware.py).                          *)
(*                                                                         *)
(* A connection carries two layers of the setting app.current_user_id:     *)
(* the session-level value, which lasts until the connection is closed,    *)
(* and a transaction-local override, which lasts until the transaction     *)
(* ends.  set_config(name, value, is_local) writes the session layer when  *)
(* is_local is false and the transaction layer when it is true.            *)
(***************************************************************************)
MaxRequests == 2
MaxConns == 2

Users == {"alice", "bob"}
Requests == 1..MaxRequests
Conns == 1..MaxConns

\* The transaction layer when no set_config(..., true) ran in the transaction.
Unset == "unset"

\* A connection as the pool first opens it: the setting was never written.
FreshConn == [session |-> None, local |-> Unset]

\* set_config('app.current_user_id', value, is_local) inside a transaction.
SetConfig(c, value, is_local) ==
    IF is_local THEN [c EXCEPT !.local = value]
                ELSE [c EXCEPT !.session = value]

\* session.commit(): the transaction ends, its local overrides are dropped.
Commit(c) == [c EXCEPT !.local = Unset]

\* current_setting('app.current_user_id', true) as the policies read it.
CurrentSetting(c) == IF c.local # Unset THEN c.local ELSE c.session

\* _set_user_context / RLSContext.__aenter__: the statement and the commit.
SetUserContextStmt(c, user_id) == Commit(SetConfig(c, user_id, FALSE))

\* _clear_user_context / RLSContext.__aexit__: the statement and the commit.
ClearUserContextStmt(c) == Commit(SetConfig(c, None, TRUE))

\* RLSMiddleware._should_skip and ._allows_unauthenticated over path classes.
Paths == {"skip", "public", "protected"}
ShouldSkip(path) == path = "skip"
AllowsUnauthenticated(path) == path = "public"

\* Whether dispatch goes on to set (and later clear) the context.
DispatchSetsContext(path, hasSession, user_id) ==
    /\ ~ShouldSkip(path)
    /\ hasSession
    /\ user_id # None

NewRequest ==
    [pc |-> "new", kind |-> None, user |-> None, scoped |-> FALSE,
     observed |-> Unset, afterOthers |-> FALSE, handler |-> None,
     cleared |-> None, outcome |-> None]

\* RLSMiddleware.dispatch up to the call of _set_user_context.
DispatchBegin(r) ==
    /\ reqs[r].pc = "new"
    /\ \E path \in Paths, hasSession \in BOOLEAN, user_id \in Users \cup {None} :
         LET sets == DispatchSetsContext(path, hasSession, user_id)
         IN reqs' = [reqs EXCEPT ![r] =
                [@ EXCEPT !.pc = IF sets THEN "set" ELSE "handler",
                          !.kind = "middleware",
                          !.user = user_id,
                          !.scoped = sets]]
    /\ UNCHANGED <<conns, sh, jobVars, cacheVars, wsVars, rateVars, lokiVars, tilerVars, listVars, sourceVars, projectVars, keycloakVars, accountVars, etlVars, searchVars, enrichVars, shapefileVars, csvVars, geojsonVars, singletonVars, uploadVars>>

\* RLSContext(session, user_id): the block is about to be entered.
ContextBegin(r) ==
    /\ reqs[r].pc = "new"
    /\ \E user_id \in Users :
         reqs' = [reqs EXCEPT ![r] =
                [@ EXCEPT !.pc = "set", !.kind = "context",
                          !.user = user_id, !.scoped = TRUE]]
    /\ UNCHANGED <<conns, sh, jobVars, cacheVars, wsVars, rateVars, lokiVars, tilerVars, listVars, sourceVars, projectVars, keycloakVars, accountVars, etlVars, searchVars, enrichVars, shapefileVars, csvVars, geojsonVars, singletonVars, uploadVars>>

\* What a failed set statement leaves the caller with.
\* RLSMiddleware._set_user_context logs and goes on; __aenter__ raises.
AfterSetFailure(rq) ==
    IF rq.kind = "middleware"
    THEN [rq EXCEPT !.pc = "handler"]
    ELSE [rq EXCEPT !.pc = "done", !.outcome = "set_error"]

\* The set statement runs on the connection the session checks out.
SetUserContext(r) ==
    /\ reqs[r].pc = "set"
    /\ \E c \in Conns, ok \in BOOLEAN :
         IF ok
         THEN /\ conns' = [conns EXCEPT ![c] = SetUserContextStmt(@, reqs[r].user)]
              /\ reqs' = [reqs EXCEPT ![r].pc = "handler"]
         ELSE /\ conns' = conns
              /\ reqs' = [reqs EXCEPT ![r] = AfterSetFailure(@)]
    /\ UNCHANGED <<sh, jobVars, cacheVars, wsVars, rateVars, lokiVars, tilerVars, listVars, sourceVars, projectVars, keycloakVars, accountVars, etlVars, searchVars, enrichVars, shapefileVars, csvVars, geojsonVars, singletonVars, uploadVars>>

\* Where the request goes once call_next / the block body is over.
AfterHandler(rq, result) ==
    IF rq.scoped
    THEN [rq EXCEPT !.pc = "clear", !.handler = result]
    ELSE [rq EXCEPT !.pc = "done", !.handler = result, !.outcome = result]

\* Every other request or block has finished, or has not begun (history: it
\* tells a query made after the others from one made beside them).
OthersFinished(r) ==
    \A q \in Requests \ {r} : reqs[q].pc \in {"new", "done"}

\* call_next(request) / the body of the block: one query on a pooled
\* connection, then the handler's own response or exception.
Handler(r) ==
    /\ reqs[r].pc = "handler"
    /\ \E c \in Conns, result \in {"response", "exception"} :
         reqs' = [reqs EXCEPT ![r] =
                AfterHandler([@ EXCEPT !.observed = CurrentSetting(conns[c]),
                                       !.afterOthers = OthersFinished(r)],
                             result)]
    /\ UNCHANGED <<conns, sh, jobVars, cacheVars, wsVars, rateVars, lokiVars, tilerVars, listVars, sourceVars, projectVars, keycloakVars, accountVars, etlVars, searchVars, enrichVars, shapefileVars, csvVars, geojsonVars, singletonVars, uploadVars>>

\* What a failed clear statement leaves the caller with.
\* RLSMiddleware._clear_user_context logs and goes on; __aexit__ raises.
AfterClearFailure(rq) ==
    IF rq.kind = "middleware"
    THEN [rq EXCEPT !.pc = "done", !.cleared = "failed", !.outcome = rq.handler]
    ELSE [rq EXCEPT !.pc = "done", !.cleared = "failed", !.outcome = "clear_error"]

\* The clear statement of the finally clause / of __aexit__.
ClearUserContext(r) ==
    /\ reqs[r].pc = "clear"
    /\ \E c \in Conns, ok \in BOOLEAN :
         IF ok
         THEN /\ conns' = [conns EXCEPT ![c] = ClearUserContextStmt(@)]
              /\ reqs' = [reqs EXCEPT ![r] =
                     [@ EXCEPT !.pc = "done", !.cleared = "ok",
                               !.outcome = reqs[r].handler]]
         ELSE /\ conns' = conns
              /\ reqs' = [reqs EXCEPT ![r] = AfterClearFailure(@)]
    /\ UNCHANGED <<sh, jobVars, cacheVars, wsVars, rateVars, lokiVars, tilerVars, listVars, sourceVars, projectVars, keycloakVars, accountVars, etlVars, searchVars, enrichVars, shapefileVars, csvVars, geojsonVars, singletonVars, uploadVars>>

InitRLS ==
    /\ conns = [c \in Conns |-> FreshConn]
    /\ reqs = [r \in Requests |-> NewRequest]

NextRLS ==
    \E r \in Requests :
        \/ DispatchBegin(r)
        \/ ContextBegin(r)
        \/ SetUserContext(r)
        \/ Handler(r)
        \/ ClearUserContext(r)

\* No request or block is between its set statement and the end of its clear.
RLSQuiescent == \A r \in Requests : reqs[r].pc \in {"new", "done"}

\* Every clear statement that was due ran and succeeded.
RLSEveryClearRan ==
    \A r \in Requests : reqs[r].pc = "done" /\ reqs[r].scoped /\ reqs[r].handler # None
                            => reqs[r].cleared = "ok"

(***************************************************************************)
(* C1.  Once every dispatch and every RLSContext block that set            *)
(* app.current_user_id has finished, with its clear statement executed,    *)
(* no pooled connection carries a user id any more, and a query made       *)
(* after every other request has finished never runs under a user id that  *)
(* its own request did not set.                                            *)
(***************************************************************************)
C1_NoLingeringUserContext ==
    /\ (RLSQuiescent /\ RLSEveryClearRan)
          => \A c \in Conns : CurrentSetting(conns[c]) = None
    /\ \A r \in Requests :
          reqs[r].afterOthers
            => reqs[r].observed \in
                 {Unset, None} \cup (IF reqs[r].scoped THEN {reqs[r].user} ELSE {})

(***************************************************************************)
(* C2.  A failure of the statement that sets or clears the context is      *)
(* never what the caller gets: a finished request or block has run its     *)
(* handler or body, and its outcome is the handler's or body's own.        *)
(***************************************************************************)
C2_SetClearFailureNeverSurfaces ==
    \A r \in Requests :
        reqs[r].pc = "done"
          => /\ reqs[r].handler # None
             /\ reqs[r].outcome = reqs[r].handler

-----------------------------------------------------------------------------
(***************************************************************************)
(* Self-healing ETL wrapper (self_healing/__init__.py).                    *)
(*                                                                         *)
(* One call of SelfHealingETL.run_with_healing.  A run of the script ends  *)
(* in one of four ways: it succeeds; it exits non-zero with nothing on     *)
(* stderr (CalledProcessError, handled); it exits non-zero with text on    *)
(* stderr (the handler calls .decode() on that text, which is a str        *)
(* because the script is run with text=True, and raises AttributeError);   *)
(* or it exceeds the timeout (TimeoutExpired, which no clause handles).    *)
(* Confidence is counted in tenths.                                        *)
(***************************************************************************)
MaxRetries == 3
ConfidenceThreshold == 5

\* str(e) of the CalledProcessError, which names the exit status.
ErrorMessages == {"exit status 1", "exit status 2"}
RunOutcomes == {"ok", "fail", "fail_stderr", "timeout"}

\* What the LLM call can give back: no usable answer ("error": the request
\* failed or the content is not JSON), or a JSON object whose keys may be
\* missing.
FixTypes == {"input_fix", "script_fix", "no_fix", None}
Confidences == {4, 5, 9}
LLMResponses ==
    {[error |-> TRUE, fix_type |-> None, has_confidence |-> FALSE,
      confidence |-> 0, complete |-> FALSE]}
    \cup [error : {FALSE}, fix_type : FixTypes, has_confidence : {TRUE},
          confidence : Confidences, complete : BOOLEAN]
    \cup [error : {FALSE}, fix_type : FixTypes, has_confidence : {FALSE},
          confidence : {0}, complete : BOOLEAN]

\* fix_info.get("confidence", 0)
ConfidenceOrDefault(resp) == IF resp.has_confidence THEN resp.confidence ELSE 0

DiagnoseAndFixSwapped(resp) ==
    IF resp.error THEN None
    ELSE IF resp.fix_type = "no_fix" /\ ConfidenceOrDefault(resp) < ConfidenceThreshold
         THEN None
         ELSE IF resp.complete THEN "fix" ELSE None

\* _diagnose_and_fix: "fix" for an ETLFix, None otherwise.  A request that
\* fails, content that does not parse and a missing diagnosis or suggestion
\* key all raise inside the try and are turned into None.
DiagnoseAndFix(resp) ==
    IF resp.error THEN None
    ELSE IF resp.fix_type = "no_fix" \/ ConfidenceOrDefault(resp) < ConfidenceThreshold
         THEN None
         ELSE IF resp.complete THEN "fix" ELSE None

LoopContinuesOffByOne(retry_count, max_retries) == retry_count <= max_retries

\* while retry_count < self.max_retries
LoopContinues(retry_count, max_retries) == retry_count < max_retries

\* The log entry of a failed run before its diagnosis came back.
Pending ==
    [error |-> FALSE, fix_type |-> "pending", has_confidence |-> FALSE,
     confidence |-> 0, complete |-> FALSE]

\* run_with_healing has not returned yet.
NoResult == [kind |-> "none", success |-> FALSE, error |-> None, retries |-> 0]

InitSH ==
    sh = [pc |-> "new", max_retries |-> 0, retry_count |-> 0, runs |-> 0,
          lastRun |-> None, log |-> <<>>, result |-> NoResult]

\* SelfHealingETL(max_retries=m).run_with_healing(...) is entered.
RunWithHealing ==
    /\ sh.pc = "new"
    /\ \E m \in 0..MaxRetries :
         sh' = [sh EXCEPT !.pc = "loop", !.max_retries = m]
    /\ UNCHANGED <<rlsVars, jobVars, cacheVars, wsVars, rateVars, lokiVars, tilerVars, listVars, sourceVars, projectVars, keycloakVars, accountVars, etlVars, searchVars, enrichVars, shapefileVars, csvVars, geojsonVars, singletonVars, uploadVars>>

\* One pass of the loop body up to the outcome of _run_script.
RunScript ==
    /\ sh.pc = "loop"
    /\ LoopContinues(sh.retry_count, sh.max_retries)
    /\ \E outcome \in RunOutcomes, code \in ErrorMessages :
         sh' = [sh EXCEPT
                  !.runs = @ + 1,
                  !.lastRun = outcome,
                  !.pc = IF outcome = "fail" THEN "diagnose" ELSE "done",
                  !.log = IF outcome = "fail"
                          THEN Append(@, [error_message |-> code, resp |-> Pending])
                          ELSE @,
                  !.result =
                     CASE outcome = "ok" ->
                            [kind |-> "returned", success |-> TRUE,
                             error |-> None, retries |-> sh.retry_count]
                       [] outcome = "fail" -> NoResult
                       [] outcome = "fail_stderr" ->
                            [kind |-> "raised", success |-> FALSE,
                             error |-> "AttributeError",
                             retries |-> sh.retry_count]
                       [] outcome = "timeout" ->
                            [kind |-> "raised", success |-> FALSE,
                             error |-> "TimeoutExpired",
                             retries |-> sh.retry_count]]
    /\ UNCHANGED <<rlsVars, jobVars, cacheVars, wsVars, rateVars, lokiVars, tilerVars, listVars, sourceVars, projectVars, keycloakVars, accountVars, etlVars, searchVars, enrichVars, shapefileVars, csvVars, geojsonVars, singletonVars, uploadVars>>

\* The except clause after the error was recorded: diagnose, then go round
\* again or give up.
Diagnose ==
    /\ sh.pc = "diagnose"
    /\ \E resp \in LLMResponses :
         LET n == Len(sh.log)
             logged == [sh.log EXCEPT ![n].resp = resp]
         IN IF DiagnoseAndFix(resp) # None
            THEN sh' = [sh EXCEPT !.log = logged,
                                  !.retry_count = @ + 1,
                                  !.pc = "loop"]
            ELSE sh' = [sh EXCEPT !.log = logged,
                                  !.pc = "done",
                                  !.result =
                                     [kind |-> "returned", success |-> FALSE,
                                      error |-> sh.log[n].error_message,
                                      retries |-> sh.retry_count]]
    /\ UNCHANGED <<rlsVars, jobVars, cacheVars, wsVars, rateVars, lokiVars, tilerVars, listVars, sourceVars, projectVars, keycloakVars, accountVars, etlVars, searchVars, enrichVars, shapefileVars, csvVars, geojsonVars, singletonVars, uploadVars>>

\* The return after the loop.
LoopExit ==
    /\ sh.pc = "loop"
    /\ ~LoopContinues(sh.retry_count, sh.max_retries)
    /\ sh' = [sh EXCEPT
                !.pc = "done",
                !.result =
                   [kind |-> "returned", success |-> FALSE,
                    error |-> IF sh.log # <<>>
                              THEN sh.log[Len(sh.log)].error_message
                              ELSE "Unknown error",
                    retries |-> sh.retry_count]]
    /\ UNCHANGED <<rlsVars, jobVars, cacheVars, wsVars, rateVars, lokiVars, tilerVars, listVars, sourceVars, projectVars, keycloakVars, accountVars, etlVars, searchVars, enrichVars, shapefileVars, csvVars, geojsonVars, singletonVars, uploadVars>>

NextSH == RunWithHealing \/ RunScript \/ Diagnose \/ LoopExit

\* The call is over and no run of the script succeeded.
SHEveryRunFailed == sh.pc = "done" /\ sh.lastRun # "ok"

\* Every run so far exited non-zero with an empty stderr (the failure the
\* except clause handles).
SHEveryRunFailedQuietly == sh.pc = "done" /\ sh.runs = Len(sh.log)

\* The diagnosis of the i-th failed run, as the claims word it: classified
\* as something other than no_fix, with a confidence of at least 0.5.
SHClassifiedAsFix(i) ==
    LET resp == sh.log[i].resp
    IN /\ resp # Pending
       /\ ~resp.error
       /\ resp.fix_type # "no_fix"
       /\ resp.has_confidence
       /\ resp.confidence >= ConfidenceThreshold

\* The i-th failed run was followed by a fix (an ETLFix was returned).
SHFixed(i) ==
    /\ sh.log[i].resp # Pending
    /\ SHClassifiedAsFix(i)
    /\ sh.log[i].resp.complete

SHReturnedFailure ==
    /\ sh.result.kind = "returned"
    /\ sh.result.success = FALSE

-----------------------------------------------------------------------------
(***************************************************************************)
(* Job routes (routes/jobs.py) and their Celery tasks (tasks/etl_tasks.py).*)
(*                                                                         *)
(* A Job row holds the owner, the status and the id of its Celery task;    *)
(* the result backend holds, per task, the state Celery gives it and its   *)
(* result.  Celery's own states are upper-case ("PENDING", "SUCCESS",      *)
(* "FAILURE", "RETRY", "REVOKED"); a state passed to update_state is       *)
(* stored as given.                                                        *)
(***************************************************************************)
MaxJobs == 1
TaskMaxRetries == 3

JobIds == 1..MaxJobs
JobTypes == {"etl", "ml"}

\* The task enqueued for job j (Celery draws the id; one task per job).
TaskIdOf(j) == ToString(j)
TaskIds == {TaskIdOf(j) : j \in JobIds}

\* celery_app.TaskStatus
TaskStatus_STARTED == "started"
TaskStatus_SUCCESS == "success"
TaskStatus_FAILURE == "failure"

\* JobStatus members the routes use.
JobStatus_PENDING == "pending"
JobStatus_CANCELLED == "cancelled"

NoJob ==
    [exists |-> FALSE, job_type |-> None, user_id |-> None, status |-> None,
     celery_task_id |-> None]
NoTask == [state |-> "none", result |-> None, info |-> None, retries |-> 0]
NoResponse ==
    [op |-> None, job |-> 0, caller |-> None, code |-> 0, status |-> None,
     result |-> None, error |-> None]

InitJobs ==
    /\ jobs = [j \in JobIds |-> NoJob]
    /\ tasks = [t \in TaskIds |-> NoTask]
    /\ reply = NoResponse

\* The state of the task enqueued for job j.
TaskStateOf(j) == tasks[TaskIdOf(j)].state

\* The celery_task_id of the row submit_*_job stores: the Job is built and
\* committed before delay() returns the task, and is not written again.
SubmittedTaskId(task_id) == None

\* submit_etl_job / submit_ml_job.  job_id = UUID() stands for a fresh id
\* (as written, UUID() without an argument raises TypeError; the rest of
\* the handler is modelled as it reads).
SubmitJob(u, jt) ==
    /\ \E j \in JobIds :
         /\ ~jobs[j].exists
         /\ \A k \in JobIds : k < j => jobs[k].exists
         /\ jobs' = [jobs EXCEPT ![j] =
                [exists |-> TRUE, job_type |-> jt, user_id |-> u,
                 status |-> JobStatus_PENDING,
                 celery_task_id |-> SubmittedTaskId(TaskIdOf(j))]]
         /\ tasks' = [tasks EXCEPT ![TaskIdOf(j)] = [NoTask EXCEPT !.state = "PENDING"]]
         /\ reply' = [NoResponse EXCEPT
                       !.op = "submit", !.job = j, !.caller = u, !.code = 202,
                       !.status = JobStatus_PENDING]
    /\ UNCHANGED <<rlsVars, sh, cacheVars, wsVars, rateVars, lokiVars, tilerVars, listVars, sourceVars, projectVars, keycloakVars, accountVars, etlVars, searchVars, enrichVars, shapefileVars, csvVars, geojsonVars, singletonVars, uploadVars>>

\* The worker takes the task from the queue: update_state(STARTED).
WorkerStart(t) ==
    /\ tasks[t].state \in {"PENDING", "RETRY"}
    /\ tasks' = [tasks EXCEPT ![t].state = TaskStatus_STARTED]
    /\ UNCHANGED <<rlsVars, sh, cacheVars, wsVars, jobs, reply, rateVars, lokiVars, tilerVars, listVars, sourceVars, projectVars, keycloakVars, accountVars, etlVars, searchVars, enrichVars, shapefileVars, csvVars, geojsonVars, singletonVars, uploadVars>>

\* The job whose task is t.
JobOfTask(t) == CHOOSE j \in JobIds : TaskIdOf(j) = t

\* The task body ends: it returns a dict (Celery: SUCCESS), raises
\* self.retry (RETRY) or lets SoftTimeLimitExceeded through (FAILURE).
\*   success: run_trainandinfer returns the result dict; process_etl_job
\*            reads the name datetime after its operation (line 91), which
\*            the module does not import, and handles the NameError as any
\*            other error;
\*   error:   process_etl_job retries while request.retries < max_retries
\*            and then returns a dict that says "failure"; run_trainandinfer
\*            returns that dict at once;
\*   timeout: process_etl_job re-raises; run_trainandinfer returns the dict.
\* retries is the retry count of the task's request, gone once it is done.
WorkerFinish(t) ==
    /\ tasks[t].state = TaskStatus_STARTED
    /\ \E outcome \in {"success", "error", "timeout"} :
         LET jt == jobs[JobOfTask(t)].job_type
             returned(what) == [NoTask EXCEPT !.state = "SUCCESS", !.result = what]
         IN tasks' = [tasks EXCEPT ![t] =
              CASE outcome = "success" /\ jt = "ml" -> returned("result_dict")
                [] outcome \in {"success", "error"} /\ jt = "etl"
                     /\ tasks[t].retries < TaskMaxRetries ->
                       [tasks[t] EXCEPT !.state = "RETRY", !.retries = @ + 1]
                [] outcome \in {"success", "error"} /\ jt = "etl"
                     /\ ~(tasks[t].retries < TaskMaxRetries) ->
                       returned("failure_dict")
                [] outcome = "error" /\ jt = "ml" -> returned("failure_dict")
                [] outcome = "timeout" /\ jt = "etl" ->
                       [NoTask EXCEPT !.state = "FAILURE",
                                      !.info = "SoftTimeLimitExceeded"]
                [] outcome = "timeout" /\ jt = "ml" -> returned("failure_dict")]
    /\ UNCHANGED <<rlsVars, sh, cacheVars, wsVars, jobs, reply, rateVars, lokiVars, tilerVars, listVars, sourceVars, projectVars, keycloakVars, accountVars, etlVars, searchVars, enrichVars, shapefileVars, csvVars, geojsonVars, singletonVars, uploadVars>>

JobResultByJobId(j) ==
    IF TaskStateOf(j) = "SUCCESS" THEN tasks[TaskIdOf(j)].result ELSE None

\* get_job_status: result = task.result when the task of the row's
\* celery_task_id is in state TaskStatus.SUCCESS.
JobResult(j) ==
    LET job == jobs[j]
    IN IF job.celery_task_id # None
          /\ tasks[job.celery_task_id].state = TaskStatus_SUCCESS
       THEN tasks[job.celery_task_id].result
       ELSE None

\* get_job_status: error = str(task.info) or "Unknown error" when that task
\* is in state TaskStatus.FAILURE.
JobError(j) ==
    LET job == jobs[j]
    IN IF job.celery_task_id # None
          /\ tasks[job.celery_task_id].state # TaskStatus_SUCCESS
          /\ tasks[job.celery_task_id].state = TaskStatus_FAILURE
       THEN IF tasks[job.celery_task_id].info # None
            THEN tasks[job.celery_task_id].info
            ELSE "Unknown error"
       ELSE None

OwnsJobUnchecked(job, u) == TRUE

\* job.user_id != current_user.id is what raises 403.
OwnsJob(job, u) == job.user_id = u

\* The status code of get_job_status (ok = 200) and cancel_job (ok = 204).
RouteCode(j, u, ok) ==
    IF ~jobs[j].exists THEN 404
    ELSE IF ~OwnsJob(jobs[j], u) THEN 403
    ELSE ok

\* GET /jobs/{job_id}
GetJobStatus(u, j) ==
    /\ LET code == RouteCode(j, u, 200)
       IN reply' = IF code = 200
                  THEN [NoResponse EXCEPT
                          !.op = "get", !.job = j, !.caller = u, !.code = code,
                          !.status = jobs[j].status,
                          !.result = JobResult(j),
                          !.error = JobError(j)]
                  ELSE [NoResponse EXCEPT
                          !.op = "get", !.job = j, !.caller = u, !.code = code]
    /\ UNCHANGED <<rlsVars, sh, cacheVars, wsVars, jobs, tasks, rateVars, lokiVars, tilerVars, listVars, sourceVars, projectVars, keycloakVars, accountVars, etlVars, searchVars, enrichVars, shapefileVars, csvVars, geojsonVars, singletonVars, uploadVars>>

\* celery_app.control.revoke(task_id, terminate=True): a task that has not
\* finished is stopped and marked REVOKED.
Revoke(t) ==
    IF tasks[t].state \in {"SUCCESS", "FAILURE", "REVOKED"}
    THEN tasks
    ELSE [tasks EXCEPT ![t] = [NoTask EXCEPT !.state = "REVOKED"]]

\* DELETE /jobs/{job_id}
CancelJob(u, j) ==
    /\ LET code == RouteCode(j, u, 204)
       IN /\ reply' = [NoResponse EXCEPT
                        !.op = "cancel", !.job = j, !.caller = u, !.code = code]
          /\ IF code = 204
             THEN /\ tasks' = IF jobs[j].celery_task_id # None
                              THEN Revoke(jobs[j].celery_task_id)
                              ELSE tasks
                  /\ jobs' = [jobs EXCEPT ![j].status = JobStatus_CANCELLED]
             ELSE UNCHANGED <<jobs, tasks>>
    /\ UNCHANGED <<rlsVars, sh, cacheVars, wsVars, rateVars, lokiVars, tilerVars, listVars, sourceVars, projectVars, keycloakVars, accountVars, etlVars, searchVars, enrichVars, shapefileVars, csvVars, geojsonVars, singletonVars, uploadVars>>

NextJobs ==
    \/ \E u \in Users, jt \in JobTypes : SubmitJob(u, jt)
    \/ \E t \in TaskIds : WorkerStart(t)
    \/ \E t \in TaskIds : WorkerFinish(t)
    \/ \E u \in Users, j \in JobIds : GetJobStatus(u, j)
    \/ \E u \in Users, j \in JobIds : CancelJob(u, j)

\* The Job status that goes with the state of the job's task.
JobStatusForTask(t) ==
    CASE tasks[t].state = TaskStatus_STARTED -> "started"
      [] tasks[t].state = "SUCCESS" /\ tasks[t].result = "result_dict" -> "success"
      [] tasks[t].state = "SUCCESS" /\ tasks[t].result # "result_dict" -> "failure"
      [] tasks[t].state = "FAILURE" -> "failure"
      [] OTHER -> JobStatus_PENDING

TerminalStatuses == {"success", "failure", JobStatus_CANCELLED}

\* The worker process drives the Job's status from the task, and leaves a
\* job whose status is terminal alone.  No task under tasks/ writes the Job
\* row; this transition is the lifecycle the Job entity is specified with.
WorkerRecordsJobStatus(j) ==
    /\ jobs[j].exists
    /\ jobs[j].status \notin TerminalStatuses
    /\ JobStatusForTask(TaskIdOf(j)) # jobs[j].status
    /\ jobs' = [jobs EXCEPT ![j].status = JobStatusForTask(TaskIdOf(j))]
    /\ UNCHANGED <<rlsVars, sh, cacheVars, wsVars, tasks, reply, rateVars, lokiVars, tilerVars, listVars, sourceVars, projectVars, keycloakVars, accountVars, etlVars, searchVars, enrichVars, shapefileVars, csvVars, geojsonVars, singletonVars, uploadVars>>

NextJobsLifecycle ==
    \/ NextJobs
    \/ \E j \in JobIds : WorkerRecordsJobStatus(j)

\* The task enqueued for job j has completed.
TaskCompleted(j) == TaskStateOf(j) \in {"SUCCESS", "FAILURE"}

(***************************************************************************)
(* C5.  Once the task of a submitted job has completed, get_job_status     *)
(* called by the owner answers status success with a result and no error,  *)
(* or status failure with an error and no result (a cancelled job, which   *)
(* C7 is about, is left aside).                                            *)
(***************************************************************************)
C5_CompletedJobReportsOutcome ==
    [][\A u \in Users, j \in JobIds :
         (/\ GetJobStatus(u, j)
          /\ jobs[j].exists
          /\ jobs[j].user_id = u
          /\ jobs[j].status # JobStatus_CANCELLED
          /\ TaskCompleted(j))
           => \/ /\ reply'.status = "success"
                 /\ reply'.result # None
                 /\ reply'.error = None
              \/ /\ reply'.status = "failure"
                 /\ reply'.error # None
                 /\ reply'.result = None]_vars

(***************************************************************************)
(* C6.  Once the status of a Job is terminal (success, failure or          *)
(* cancelled), no step changes it: cancel_job on a job that has finished   *)
(* or failed does not make it cancelled.                                   *)
(***************************************************************************)
C6_TerminalStatusIsFinal ==
    [][\A j \in JobIds :
         (jobs[j].exists /\ jobs[j].status \in TerminalStatuses)
           => jobs'[j].status = jobs[j].status]_vars

(***************************************************************************)
(* C7.  Once cancel_job has marked a job cancelled, the job stays          *)
(* cancelled and every get_job_status of its owner answers cancelled with  *)
(* no result and no error, whatever the worker has done with the task in   *)
(* the meantime.                                                           *)
(***************************************************************************)
C7_CancelledStaysCancelled ==
    [][\A j \in JobIds :
         (jobs[j].exists /\ jobs[j].status = JobStatus_CANCELLED)
           => /\ jobs'[j].status = JobStatus_CANCELLED
              /\ \A u \in Users :
                   (GetJobStatus(u, j) /\ jobs[j].user_id = u)
                     => /\ reply'.status = JobStatus_CANCELLED
                        /\ reply'.result = None
                        /\ reply'.error = None]_vars

\* The owner polls a cancelled job whose task the worker finished all the same.
C7_Witness ==
    /\ reply.op = "get"
    /\ reply.code = 200
    /\ jobs[reply.job].status = JobStatus_CANCELLED
    /\ reply.status = JobStatus_CANCELLED
    /\ TaskStateOf(reply.job) = "SUCCESS"

(***************************************************************************)
(* C8.  get_job_status and cancel_job answer 404 for an id that matches no *)
(* job and 403 for a caller who is not the job's owner, and in both cases  *)
(* change no Job row, revoke no task and disclose nothing of the job; only *)
(* the owner gets 200 or 204.                                              *)
(***************************************************************************)
C8_OnlyOwnerReadsOrCancels ==
    [][\A u \in Users, j \in JobIds :
         (GetJobStatus(u, j) \/ CancelJob(u, j))
           => /\ ~jobs[j].exists => reply'.code = 404
              /\ (jobs[j].exists /\ jobs[j].user_id # u) => reply'.code = 403
              /\ (jobs[j].exists /\ jobs[j].user_id = u) => reply'.code \in {200, 204}
              /\ reply'.code \in {403, 404}
                   => /\ jobs' = jobs
                      /\ tasks' = tasks
                      /\ reply'.status = None
                      /\ reply'.result = None
                      /\ reply'.error = None]_vars

\* A user who does not own a pending job was refused its cancellation.
C8_Witness ==
    /\ reply.op = "cancel"
    /\ reply.code = 403
    /\ jobs[reply.job].exists
    /\ jobs[reply.job].user_id # reply.caller
    /\ jobs[reply.job].status = JobStatus_PENDING

-----------------------------------------------------------------------------
(***************************************************************************)
(* Redis cache (core/cache.py).                                            *)
(*                                                                         *)
(* The store is the Redis server: it is reachable or not, and holds a set  *)
(* of keys.  A command sent while it is not reachable raises a RedisError  *)
(* (ConnectionError or TimeoutError).                                      *)
(***************************************************************************)
MaxCacheOps == 2

CacheKeys == {"k1", "k2"}

NoCall == [op |-> None, result |-> None, store_up |-> TRUE]

InitCache ==
    /\ cache = [client |-> FALSE, hits |-> 0, misses |-> 0, size |-> 0,
                last |-> NoCall]
    /\ store = [up |-> TRUE, keys |-> {}]

\* CacheStats.hit_rate, in percent.
HitRate ==
    LET total == cache.hits + cache.misses
    IN IF total > 0 THEN (cache.hits * 100) \div total ELSE 0

\* The Redis server becomes unreachable, or reachable again.
StoreGoesDown ==
    /\ store.up
    /\ store' = [store EXCEPT !.up = FALSE]
    /\ UNCHANGED <<rlsVars, sh, jobVars, wsVars, cache, rateVars, lokiVars, tilerVars, listVars, sourceVars, projectVars, keycloakVars, accountVars, etlVars, searchVars, enrichVars, shapefileVars, csvVars, geojsonVars, singletonVars, uploadVars>>

StoreComesUp ==
    /\ ~store.up
    /\ store' = [store EXCEPT !.up = TRUE]
    /\ UNCHANGED <<rlsVars, sh, jobVars, wsVars, cache, rateVars, lokiVars, tilerVars, listVars, sourceVars, projectVars, keycloakVars, accountVars, etlVars, searchVars, enrichVars, shapefileVars, csvVars, geojsonVars, singletonVars, uploadVars>>

\* A key reaches its ttl.
KeyExpires(k) ==
    /\ k \in store.keys
    /\ store' = [store EXCEPT !.keys = @ \ {k}]
    /\ UNCHANGED <<rlsVars, sh, jobVars, wsVars, cache, rateVars, lokiVars, tilerVars, listVars, sourceVars, projectVars, keycloakVars, accountVars, etlVars, searchVars, enrichVars, shapefileVars, csvVars, geojsonVars, singletonVars, uploadVars>>

\* RedisCache.connect: the client is kept when the ping succeeds and set to
\* None when it raises a RedisError.
CacheConnect ==
    /\ cache' = [cache EXCEPT !.client = store.up,
                              !.last = [op |-> "connect", result |-> None,
                                        store_up |-> store.up]]
    /\ UNCHANGED <<rlsVars, sh, jobVars, wsVars, store, rateVars, lokiVars, tilerVars, listVars, sourceVars, projectVars, keycloakVars, accountVars, etlVars, searchVars, enrichVars, shapefileVars, csvVars, geojsonVars, singletonVars, uploadVars>>

\* RedisCache.get
CacheGet(k) ==
    /\ cache.hits + cache.misses < MaxCacheOps
    /\ LET called(result) == [op |-> "get", result |-> result, store_up |-> store.up]
       IN cache' =
            IF ~cache.client THEN [cache EXCEPT !.last = called(None)]
            ELSE IF ~store.up THEN [cache EXCEPT !.last = called(None)]
            ELSE IF k \in store.keys
                 THEN [cache EXCEPT !.hits = @ + 1, !.last = called("value")]
                 ELSE [cache EXCEPT !.misses = @ + 1, !.last = called(None)]
    /\ UNCHANGED <<rlsVars, sh, jobVars, wsVars, store, rateVars, lokiVars, tilerVars, listVars, sourceVars, projectVars, keycloakVars, accountVars, etlVars, searchVars, enrichVars, shapefileVars, csvVars, geojsonVars, singletonVars, uploadVars>>

\* RedisCache.set when setex raises a RedisError: the except clause names
\* (redis.RedisError, json.JSONEncodeError); the json module has no
\* JSONEncodeError, so evaluating the clause raises AttributeError and the
\* handler body is never reached.
SetOnRedisError == "raised AttributeError"

\* RedisCache.set
CacheSet(k) ==
    /\ cache.size < MaxCacheOps
    /\ LET called(result) == [op |-> "set", result |-> result, store_up |-> store.up]
       IN IF ~cache.client
          THEN /\ cache' = [cache EXCEPT !.last = called("False")]
               /\ store' = store
          ELSE IF ~store.up
          THEN /\ cache' = [cache EXCEPT !.last = called(SetOnRedisError)]
               /\ store' = store
          ELSE /\ cache' = [cache EXCEPT !.size = @ + 1, !.last = called("True")]
               /\ store' = [store EXCEPT !.keys = @ \cup {k}]
    /\ UNCHANGED <<rlsVars, sh, jobVars, wsVars, rateVars, lokiVars, tilerVars, listVars, sourceVars, projectVars, keycloakVars, accountVars, etlVars, searchVars, enrichVars, shapefileVars, csvVars, geojsonVars, singletonVars, uploadVars>>

\* max(0, size - 1)
SizeAfterDelete(size) == IF size - 1 > 0 THEN size - 1 ELSE 0

\* RedisCache.delete
CacheDelete(k) ==
    /\ LET called(result) == [op |-> "delete", result |-> result, store_up |-> store.up]
       IN IF ~cache.client
          THEN /\ cache' = [cache EXCEPT !.last = called("False")]
               /\ store' = store
          ELSE IF ~store.up
          THEN /\ cache' = [cache EXCEPT !.last = called("False")]
               /\ store' = store
          ELSE IF k \in store.keys
          THEN /\ cache' = [cache EXCEPT !.size = SizeAfterDelete(@),
                                         !.last = called("True")]
               /\ store' = [store EXCEPT !.keys = @ \ {k}]
          ELSE /\ cache' = [cache EXCEPT !.last = called("False")]
               /\ store' = store
    /\ UNCHANGED <<rlsVars, sh, jobVars, wsVars, rateVars, lokiVars, tilerVars, listVars, sourceVars, projectVars, keycloakVars, accountVars, etlVars, searchVars, enrichVars, shapefileVars, csvVars, geojsonVars, singletonVars, uploadVars>>

NextCache ==
    \/ StoreGoesDown
    \/ StoreComesUp
    \/ CacheConnect
    \/ \E k \in CacheKeys : KeyExpires(k)
    \/ \E k \in CacheKeys : CacheGet(k)
    \/ \E k \in CacheKeys : CacheSet(k)
    \/ \E k \in CacheKeys : CacheDelete(k)

(***************************************************************************)
(* C9.  A call made while the store is unreachable (never connected, or    *)
(* lost after a successful connect) does not raise: get answers None, set  *)
(* and delete answer False; and the hit rate is 0 as long as no lookup     *)
(* has hit.                                                                *)
(***************************************************************************)
C9_UnreachableStoreDegrades ==
    /\ ~cache.last.store_up
         => /\ cache.last.op = "get" => cache.last.result = None
            /\ cache.last.op \in {"set", "delete"} => cache.last.result = "False"
    /\ cache.hits = 0 => HitRate = 0

-----------------------------------------------------------------------------
(***************************************************************************)
(* Websocket connection registry (tasks/websocket_manager.py).             *)
(*                                                                         *)
(* connect, disconnect and the clean-up loop of broadcast run without      *)
(* giving up the event loop once the websocket is accepted; broadcast      *)
(* gives it up during every send, so other calls run while a send is in    *)
(* progress and the for loop holds an iterator over the subscriber set.    *)
(***************************************************************************)
MaxSockets == 2

Sockets == 1..MaxSockets
\* Job ids are path segments of /ws/jobs/{job_id}: non-empty strings.
WsJobs == {"job-a", "job-b"}

NoEntry == [present |-> FALSE, subs |-> {}]
NoBroadcast ==
    [pc |-> "idle", job |-> None, size |-> 0, stale |-> FALSE, start |-> {},
     visited |-> {}, cur |-> 0, disconnected |-> {}]

InitWS ==
    /\ active_connections = [j \in WsJobs |-> NoEntry]
    /\ connection_jobs = [w \in Sockets |-> None]
    /\ sockets = [w \in Sockets |-> "new"]
    /\ dropped = {}
    /\ bc = NoBroadcast


\* ConnectionManager.connect.  websocket.accept() succeeds once, on a
\* websocket that has not been accepted yet.
Connect(w, j) ==
    /\ sockets[w] = "new"
    /\ sockets' = [sockets EXCEPT ![w] = "open"]
    /\ active_connections' =
         [active_connections EXCEPT ![j] =
            [present |-> TRUE, subs |-> @.subs \cup {w}]]
    /\ connection_jobs' = [connection_jobs EXCEPT ![w] = j]
    /\ dropped' = dropped \ {w}
    \* a key that was deleted and is set again gets a new set object
    /\ bc' = bc
    /\ UNCHANGED <<rlsVars, sh, jobVars, cacheVars, rateVars, lokiVars, tilerVars, listVars, sourceVars, projectVars, keycloakVars, accountVars, etlVars, searchVars, enrichVars, shapefileVars, csvVars, geojsonVars, singletonVars, uploadVars>>

\* The client goes away: every later send to the websocket raises.
PeerCloses(w) ==
    /\ sockets[w] = "open"
    /\ sockets' = [sockets EXCEPT ![w] = "gone"]
    /\ UNCHANGED <<rlsVars, sh, jobVars, cacheVars, active_connections,
                   connection_jobs, dropped, bc, rateVars, lokiVars, tilerVars, listVars, sourceVars, projectVars, keycloakVars, accountVars, etlVars, searchVars, enrichVars, shapefileVars, csvVars, geojsonVars, singletonVars, uploadVars>>

EntryAfterDiscardKept(entry, w) ==
    [present |-> TRUE, subs |-> entry.subs \ {w}]

\* disconnect: discard the websocket, and delete the key of a set left empty.
EntryAfterDiscard(entry, w) ==
    IF entry.subs \ {w} = {} THEN NoEntry
    ELSE [present |-> TRUE, subs |-> entry.subs \ {w}]

\* The registry after disconnect(w): connection_jobs.pop(w, None), then the
\* discard when the job id popped is truthy and still a key.
ActiveAfterDisconnect(act, cj, w) ==
    LET job_id == cj[w]
    IN IF job_id # None /\ act[job_id].present
       THEN [act EXCEPT ![job_id] = EntryAfterDiscard(@, w)]
       ELSE act

\* The iterator of the broadcast in progress loses its set object when the
\* key of its job is deleted.
StaleAfter(act) ==
    bc.stale \/ (bc.pc = "sending" /\ ~act[bc.job].present)

\* ConnectionManager.disconnect
Disconnect(w) ==
    /\ LET act == ActiveAfterDisconnect(active_connections, connection_jobs, w)
       IN /\ active_connections' = act
          /\ bc' = [bc EXCEPT !.stale = StaleAfter(act)]
    /\ connection_jobs' = [connection_jobs EXCEPT ![w] = None]
    /\ dropped' = dropped \cup {w}
    /\ UNCHANGED <<rlsVars, sh, jobVars, cacheVars, sockets, rateVars, lokiVars, tilerVars, listVars, sourceVars, projectVars, keycloakVars, accountVars, etlVars, searchVars, enrichVars, shapefileVars, csvVars, geojsonVars, singletonVars, uploadVars>>

\* The subscriber set as the iterator of the broadcast in progress sees it.
IteratedSet == IF bc.stale THEN {} ELSE active_connections[bc.job].subs

\* broadcast up to its first send: return when the job id is no key, else
\* take an iterator over its subscriber set, which yields a first
\* subscriber, and start the send to it.
BroadcastBegin(j) ==
    /\ bc.pc \in {"idle", "done", "raised"}
    /\ IF ~active_connections[j].present
       THEN bc' = [NoBroadcast EXCEPT !.pc = "done", !.job = j]
       ELSE \E w \in active_connections[j].subs :
              bc' = [NoBroadcast EXCEPT
                       !.pc = "sending", !.job = j,
                       !.size = Cardinality(active_connections[j].subs),
                       !.start = active_connections[j].subs,
                       !.visited = {w}, !.cur = w]
    /\ UNCHANGED <<rlsVars, sh, jobVars, cacheVars, active_connections,
                   connection_jobs, sockets, dropped, rateVars, lokiVars, tilerVars, listVars, sourceVars, projectVars, keycloakVars, accountVars, etlVars, searchVars, enrichVars, shapefileVars, csvVars, geojsonVars, singletonVars, uploadVars>>

RECURSIVE DisconnectAll(_, _, _)
\* for conn in disconnected: await self.disconnect(conn)
DisconnectAll(act, cj, ws) ==
    IF ws = {} THEN <<act, cj>>
    ELSE LET w == CHOOSE x \in ws : TRUE
         IN DisconnectAll(ActiveAfterDisconnect(act, cj, w),
                          [cj EXCEPT ![w] = None], ws \ {w})

\* await connection.send_json(message) raises when the client is gone.
SendFails(w) == sockets[w] = "gone"

\* The send in progress comes back and the for loop goes on to the next
\* subscriber.  A send that raised puts its websocket on the disconnected
\* list.  The iterator then raises RuntimeError when the size of the set
\* changed since it was taken (the call ends there, before its clean-up
\* loop); else it yields a subscriber not yet visited, and the send to it
\* starts; else the loop is over, disconnect is called for every websocket
\* on the list and broadcast returns.  A subscriber added during the loop
\* may be passed over.
BroadcastSend ==
    /\ bc.pc = "sending"
    /\ LET disconnected == IF SendFails(bc.cur)
                           THEN bc.disconnected \cup {bc.cur}
                           ELSE bc.disconnected
           rest == IteratedSet \ bc.visited
       IN IF Cardinality(IteratedSet) # bc.size
          THEN /\ bc' = [bc EXCEPT !.pc = "raised",
                                   !.disconnected = disconnected]
               /\ UNCHANGED <<active_connections, connection_jobs, dropped>>
          ELSE \/ \E w \in rest :
                    /\ bc' = [bc EXCEPT !.cur = w,
                                        !.visited = @ \cup {w},
                                        !.disconnected = disconnected]
                    /\ UNCHANGED <<active_connections, connection_jobs,
                                   dropped>>
               \/ /\ rest \cap bc.start = {}
                  /\ LET after == DisconnectAll(active_connections,
                                                connection_jobs, disconnected)
                     IN /\ active_connections' = after[1]
                        /\ connection_jobs' = after[2]
                  /\ dropped' = dropped \cup disconnected
                  /\ bc' = [bc EXCEPT !.pc = "done",
                                      !.disconnected = disconnected]
    /\ UNCHANGED <<rlsVars, sh, jobVars, cacheVars, sockets, rateVars, lokiVars, tilerVars, listVars, sourceVars, projectVars, keycloakVars, accountVars, etlVars, searchVars, enrichVars, shapefileVars, csvVars, geojsonVars, singletonVars, uploadVars>>

NextWS ==
    \/ \E w \in Sockets, j \in WsJobs : Connect(w, j)
    \/ \E w \in Sockets : PeerCloses(w)
    \/ \E w \in Sockets : Disconnect(w)
    \/ \E j \in WsJobs : BroadcastBegin(j)
    \/ BroadcastSend

BroadcastOver == bc.pc \in {"done", "raised"}

(***************************************************************************)
(* C11.  When a broadcast to a job is over, a send was attempted to every  *)
(* websocket that was subscribed to the job when it began and still is     *)
(* (a failed send does not keep the others from their attempt), and every  *)
(* websocket whose send failed is in no subscriber set and has no entry in *)
(* connection_jobs.                                                        *)
(***************************************************************************)
C11_BroadcastReachesAllAndPrunes ==
    BroadcastOver /\ bc.job # None
      => /\ (bc.start \cap active_connections[bc.job].subs) \subseteq bc.visited
         /\ \A w \in bc.disconnected :
              /\ \A j \in WsJobs : w \notin active_connections[j].subs
              /\ connection_jobs[w] = None

(***************************************************************************)
(* C28.  A connect or disconnect for the job that runs while a broadcast   *)
(* is suspended at a send does not make the broadcast raise, and the       *)
(* broadcast that returned attempted a send to every websocket subscribed  *)
(* to the job from its beginning to its end.  (A websocket is accepted     *)
(* once, so one that was subscribed at the beginning and is subscribed now *)
(* was subscribed all along.)                                              *)
(***************************************************************************)
C28_BroadcastSurvivesConcurrentChange ==
    bc.job # None
      => /\ bc.pc # "raised"
         /\ bc.pc = "done"
              => \A w \in bc.start :
                    w \in active_connections[bc.job].subs => w \in bc.visited

-----------------------------------------------------------------------------
(***************************************************************************)
(* Rate-limit tiers (core/rate_limit.py).                                  *)
(*                                                                         *)
(* A path is a sequence of pieces of text; the path is their               *)
(* concatenation.  No piece is the beginning of another piece, so one path *)
(* starts with another exactly when its pieces start with the other's.     *)
(***************************************************************************)
MaxPathLen == 3

\* The pieces that follow a table prefix or stand alone.
PathPieces == {"/123", "/random", "x"}

RECURSIVE PathTails(_)
PathTails(n) ==
    IF n = 0 THEN {<<>>}
    ELSE PathTails(n - 1)
           \cup {Append(t, p) : t \in PathTails(n - 1), p \in PathPieces}

HttpMethods == {"GET", "POST", "PUT", "PATCH", "DELETE"}

\* class RateLimits
RateLimits_DEFAULT == "200/minute"
RateLimits_ANON == "100/minute"
RateLimits_AUTHENTICATED == "1000/minute"
RateLimits_SENSITIVE == "10/minute"
RateLimits_READ_ONLY == "500/minute"
RateLimits_WRITE == "100/minute"
RateLimits_HEALTH == "1000/minute"
RateLimits_UPLOAD == "5/minute"

ENDPOINT_CATEGORIES ==
    {[prefix |-> <<"/health">>, limit |-> RateLimits_HEALTH],
     [prefix |-> <<"/ready">>, limit |-> RateLimits_HEALTH],
     [prefix |-> <<"/api/v1", "/auth/login">>, limit |-> RateLimits_SENSITIVE],
     [prefix |-> <<"/api/v1", "/auth/register">>, limit |-> RateLimits_SENSITIVE],
     [prefix |-> <<"/api/v1", "/auth/reset-password">>,
      limit |-> RateLimits_SENSITIVE],
     [prefix |-> <<"/api/v1", "/users">>, limit |-> RateLimits_WRITE],
     [prefix |-> <<"/api/v1", "/user-profile">>,
      limit |-> RateLimits_AUTHENTICATED],
     [prefix |-> <<"/api/v1", "/sources">>, limit |-> RateLimits_READ_ONLY],
     [prefix |-> <<"/api/v1", "/layers">>, limit |-> RateLimits_READ_ONLY],
     [prefix |-> <<"/api/v1", "/projects">>, limit |-> RateLimits_READ_ONLY],
     [prefix |-> <<"/api/v1", "/geometry">>, limit |-> RateLimits_READ_ONLY],
     [prefix |-> <<"/tasks/">>, limit |-> RateLimits_UPLOAD]}

\* The beginnings of the paths looked up: the prefixes of the table, and
\* beginnings that are no table prefix.
PathHeads ==
    {e.prefix : e \in ENDPOINT_CATEGORIES}
      \cup {<<"/api/v1">>, <<"/random">>, <<"x">>}

\* The paths looked up: a head followed by up to MaxPathLen pieces in all.
RatePaths ==
    {p \in {h \o t : h \in PathHeads, t \in PathTails(MaxPathLen - 1)} :
        Len(p) <= MaxPathLen}

\* path.startswith(prefix)
StartsWith(path, prefix) ==
    /\ Len(prefix) <= Len(path)
    /\ SubSeq(path, 1, Len(prefix)) = prefix

\* The table entries a path matches, exactly or by prefix.
MatchingEntries(path) ==
    {e \in ENDPOINT_CATEGORIES : StartsWith(path, e.prefix)}

\* The first match in the order sorted(..., key=lambda x: -len(x[0])) (an
\* exact match is the longest prefix a path has).  The prefixes of one
\* path are prefixes of each other, so the longest has the most pieces.
LongestMatch(path) ==
    CHOOSE e \in MatchingEntries(path) :
      \A f \in MatchingEntries(path) : Len(f.prefix) <= Len(e.prefix)

\* get_rate_limit_for_path
GetRateLimitForPath(path, method) ==
    IF \E e \in ENDPOINT_CATEGORIES : e.prefix = path
    THEN (CHOOSE e \in ENDPOINT_CATEGORIES : e.prefix = path).limit
    ELSE IF MatchingEntries(path) # {}
         THEN LongestMatch(path).limit
         ELSE IF method \in {"POST", "PUT", "PATCH", "DELETE"}
              THEN RateLimits_WRITE
              ELSE RateLimits_DEFAULT

NoLookup == [path |-> <<>>, method |-> None, limit |-> None]

InitRate == rl = NoLookup

\* One call of get_rate_limit_for_path(path, method).
RateLimitLookup ==
    /\ \E path \in RatePaths, method \in HttpMethods :
         rl' = [path |-> path, method |-> method,
                limit |-> GetRateLimitForPath(path, method)]
    /\ UNCHANGED <<rlsVars, sh, jobVars, cacheVars, wsVars, lokiVars, tilerVars, listVars, sourceVars, projectVars, keycloakVars, accountVars, etlVars, searchVars, enrichVars, shapefileVars, csvVars, geojsonVars, singletonVars, uploadVars>>

NextRate == RateLimitLookup

\* /api/v1/sources, /api/v1/sources/{id}, /api/v1/projects/{id} and
\* /api/v1/layers/{id}.
DataEndpoints ==
    {<<"/api/v1", "/sources">>, <<"/api/v1", "/sources", "/123">>,
     <<"/api/v1", "/projects", "/123">>, <<"/api/v1", "/layers", "/123">>}

(***************************************************************************)
(* C12.  A POST, PUT, PATCH or DELETE request to one of the data endpoints *)
(* /api/v1/sources, /api/v1/sources/{id}, /api/v1/projects/{id} and        *)
(* /api/v1/layers/{id}, or to a path that matches no table entry, gets the *)
(* write tier RateLimits.WRITE.                                            *)
(***************************************************************************)
C12_WriteMethodsGetWriteTier ==
    (/\ rl.method \in {"POST", "PUT", "PATCH", "DELETE"}
     /\ rl.path \in DataEndpoints \/ (rl.path # <<>> /\ MatchingEntries(rl.path) = {}))
      => rl.limit = RateLimits_WRITE

-----------------------------------------------------------------------------
(***************************************************************************)
(* Loki log shipping (core/logging.py).                                    *)
(*                                                                         *)
(* LokiHandler derives from jsonlogger.JsonFormatter, a logging.Formatter: *)
(* the base class has a format method and neither emit nor close.  The     *)
(* pending batch is modelled by its length.                                *)
(***************************************************************************)
MaxBatchSize == 3
MaxEmits == 4

\* What self._session.post(...) followed by raise_for_status() does: it
\* returns, raises a requests.RequestException (connection error, timeout,
\* HTTP error status) or raises an exception of another class.
ShipOutcomes == {"ok", "RequestException", "OtherException"}

NoShipment == "none"
NoHandler ==
    [made |-> FALSE, configured |-> FALSE, batch_size |-> 1, batch |-> 0,
     op |-> None, raised |-> None, shipped |-> NoShipment,
     emitted |-> 0, delivered |-> 0, lost |-> 0]

InitLoki == loki = NoHandler

\* LokiHandler(config): a session exists when config.url is set.
NewLokiHandler ==
    /\ ~loki.made
    /\ \E configured \in BOOLEAN, batch_size \in 1..MaxBatchSize :
         loki' = [NoHandler EXCEPT !.made = TRUE, !.configured = configured,
                                   !.batch_size = batch_size]
    /\ UNCHANGED <<rlsVars, sh, jobVars, cacheVars, wsVars, rateVars, tilerVars, listVars, sourceVars, projectVars, keycloakVars, accountVars, etlVars, searchVars, enrichVars, shapefileVars, csvVars, geojsonVars, singletonVars, uploadVars>>

\* The except clause of flush: a RequestException is printed, an exception
\* of another class leaves flush.
FlushRaises(outcome) ==
    IF outcome = "OtherException" THEN "OtherException" ELSE None

\* flush as a function of the handler and of what the post does: the
\* handler after it, what was shipped and what flush raises.  The batch is
\* copied and cleared before the post: its records are delivered or lost
\* (history: emitted, delivered and lost count records).
Flush(h, outcome) ==
    IF h.batch = 0 \/ ~h.configured
    THEN [h EXCEPT !.shipped = NoShipment, !.raised = None]
    ELSE [h EXCEPT !.batch = 0, !.shipped = outcome,
                   !.raised = FlushRaises(outcome),
                   !.delivered = IF outcome = "ok" THEN @ + h.batch ELSE @,
                   !.lost = IF outcome = "ok" THEN @ ELSE @ + h.batch]

\* LokiHandler.format reads record.line_no, which a LogRecord only has when
\* the caller supplied it; _parse_log_line gives None for a line that is
\* not JSON.
EmitAppends(has_line_no, parsed) == has_line_no /\ parsed

\* LokiHandler.emit
LokiEmit ==
    /\ loki.made
    /\ loki.emitted < MaxEmits
    /\ \E has_line_no \in BOOLEAN, parsed \in BOOLEAN, outcome \in ShipOutcomes :
         IF ~loki.configured
         THEN \* super().emit(record): the base class has no emit
              loki' = [loki EXCEPT !.op = "emit", !.raised = "AttributeError",
                                   !.shipped = NoShipment,
                                   !.emitted = @ + 1, !.lost = @ + 1]
         ELSE IF ~EmitAppends(has_line_no, parsed)
         THEN loki' = [loki EXCEPT !.op = "emit", !.raised = None,
                                   !.shipped = NoShipment,
                                   !.emitted = @ + 1, !.lost = @ + 1]
         ELSE LET appended == [loki EXCEPT !.batch = @ + 1, !.emitted = @ + 1]
              IN IF appended.batch >= appended.batch_size
                 THEN \* except Exception around the whole body
                      loki' = [Flush(appended, outcome) EXCEPT
                                 !.op = "emit", !.raised = None]
                 ELSE loki' = [appended EXCEPT !.op = "emit", !.raised = None,
                                               !.shipped = NoShipment]
    /\ UNCHANGED <<rlsVars, sh, jobVars, cacheVars, wsVars, rateVars, tilerVars, listVars, sourceVars, projectVars, keycloakVars, accountVars, etlVars, searchVars, enrichVars, shapefileVars, csvVars, geojsonVars, singletonVars, uploadVars>>

\* LokiHandler.flush called from outside.
LokiFlush ==
    /\ loki.made
    /\ \E outcome \in ShipOutcomes :
         loki' = [Flush(loki, outcome) EXCEPT !.op = "flush"]
    /\ UNCHANGED <<rlsVars, sh, jobVars, cacheVars, wsVars, rateVars, tilerVars, listVars, sourceVars, projectVars, keycloakVars, accountVars, etlVars, searchVars, enrichVars, shapefileVars, csvVars, geojsonVars, singletonVars, uploadVars>>

\* LokiHandler.close: flush, close the session, then super().close(),
\* which the base class does not have.
LokiClose ==
    /\ loki.made
    /\ \E outcome \in ShipOutcomes :
         LET flushed == Flush(loki, outcome)
         IN loki' = [flushed EXCEPT
                       !.op = "close",
                       !.raised = IF flushed.raised # None THEN flushed.raised
                                  ELSE "AttributeError"]
    /\ UNCHANGED <<rlsVars, sh, jobVars, cacheVars, wsVars, rateVars, tilerVars, listVars, sourceVars, projectVars, keycloakVars, accountVars, etlVars, searchVars, enrichVars, shapefileVars, csvVars, geojsonVars, singletonVars, uploadVars>>

NextLoki == NewLokiHandler \/ LokiEmit \/ LokiFlush \/ LokiClose

(***************************************************************************)
(* C13.  After an emit the pending batch holds fewer than batch_size       *)
(* records and after a close it is empty; and when the shipping of a batch *)
(* fails (RequestException or any other exception) the emit, flush or      *)
(* close that shipped it does not raise.                                   *)
(***************************************************************************)
C13_FlushedWhenFullAndNeverRaises ==
    /\ loki.op = "emit" /\ loki.configured => loki.batch < loki.batch_size
    /\ loki.op = "close" => loki.batch = 0
    /\ loki.shipped \in {"RequestException", "OtherException"}
         => loki.raised = None

-----------------------------------------------------------------------------
(***************************************************************************)
(* Hybrid tiling strategy (services/tiler.py).                             *)
(***************************************************************************)
\* Feature counts are drawn within MaxDelta of each threshold, zoom levels
\* from -1 to MaxZoom.
MaxDelta == 2
MaxZoom == 23

\* TilingConfig
VECTOR_THRESHOLD == 10000
RASTER_THRESHOLD == 100000
MAX_VECTOR_TILE_FEATURES == 50000

FeatureCounts ==
    {-1, 0, MAX_VECTOR_TILE_FEATURES}
      \cup {VECTOR_THRESHOLD + d : d \in -MaxDelta..MaxDelta}
      \cup {RASTER_THRESHOLD + d : d \in -MaxDelta..MaxDelta}
ZoomLevels == -1..MaxZoom
ViewportFeatures == {0, MAX_VECTOR_TILE_FEATURES + 1}

\* RenderStrategy
RenderStrategy_VECTOR == "vector"
RenderStrategy_HYBRID == "hybrid"
RenderStrategy_RASTER == "raster"

DetermineStrategyInclusive(feature_count, zoom_level, viewport_features) ==
    IF feature_count <= VECTOR_THRESHOLD THEN RenderStrategy_VECTOR
    ELSE IF feature_count >= RASTER_THRESHOLD THEN RenderStrategy_RASTER
    ELSE IF zoom_level <= 6 THEN RenderStrategy_HYBRID
    ELSE IF zoom_level >= 15 THEN RenderStrategy_RASTER
    ELSE RenderStrategy_HYBRID

\* HybridTilingService.determine_strategy
DetermineStrategy(feature_count, zoom_level, viewport_features) ==
    IF feature_count < VECTOR_THRESHOLD THEN RenderStrategy_VECTOR
    ELSE IF feature_count > RASTER_THRESHOLD THEN RenderStrategy_RASTER
    ELSE IF zoom_level <= 6 THEN RenderStrategy_HYBRID
    ELSE IF zoom_level >= 15 THEN RenderStrategy_RASTER
    ELSE RenderStrategy_HYBRID

NoStrategy ==
    [called |-> FALSE, feature_count |-> 0, zoom_level |-> 0,
     viewport_features |-> 0, strategy |-> None]

InitTiler == tile = NoStrategy

\* One call of determine_strategy.
StrategyCall ==
    /\ \E fc \in FeatureCounts, z \in ZoomLevels, vf \in ViewportFeatures :
         tile' = [called |-> TRUE, feature_count |-> fc, zoom_level |-> z,
                  viewport_features |-> vf,
                  strategy |-> DetermineStrategy(fc, z, vf)]
    /\ UNCHANGED <<rlsVars, sh, jobVars, cacheVars, wsVars, rateVars, lokiVars, listVars, sourceVars, projectVars, keycloakVars, accountVars, etlVars, searchVars, enrichVars, shapefileVars, csvVars, geojsonVars, singletonVars, uploadVars>>

NextTiler == StrategyCall

(***************************************************************************)
(* C14.  determine_strategy answers for every feature count and zoom:      *)
(* vector below 10,000 features, raster above 100,000, and from 10,000 to  *)
(* 100,000 features hybrid up to zoom 14 and raster from zoom 15.          *)
(***************************************************************************)
C14_StrategyByCountAndZoom ==
    tile.called
      => /\ tile.strategy \in {"vector", "hybrid", "raster"}
         /\ tile.feature_count < 10000 => tile.strategy = "vector"
         /\ tile.feature_count > 100000 => tile.strategy = "raster"
         /\ (tile.feature_count >= 10000 /\ tile.feature_count <= 100000)
              => /\ tile.zoom_level <= 14 => tile.strategy = "hybrid"
                 /\ tile.zoom_level >= 15 => tile.strategy = "raster"

\* A dataset of exactly 100,000 features at zoom 14 is rendered hybrid.
C14_Witness ==
    /\ tile.called
    /\ tile.feature_count = 100000
    /\ tile.zoom_level = 14
    /\ tile.strategy = "hybrid"

-----------------------------------------------------------------------------
(***************************************************************************)
(* List endpoints (routes/sources.py, routes/layers.py,                    *)
(* routes/projects.py).                                                    *)
(*                                                                         *)
(* Each list handler counts the rows of its table, selects one page with   *)
(* OFFSET and LIMIT, and builds the envelope count / next / previous /     *)
(* results.  A table is modelled by its number of rows, results by the     *)
(* number of rows selected.                                                *)
(***************************************************************************)
MaxRows == 4
MaxPage == 3
MaxPageSize == 3

ListEndpoints == {"sources", "layers", "projects"}
Pages == 1..MaxPage          \* Query(ge=1)
PageSizes == 1..MaxPageSize  \* Query(ge=1, le=100)

NoUrl == [path |-> None, page |-> 0, page_size |-> 0]
NoListing ==
    [endpoint |-> None, page |-> 0, page_size |-> 0, count |-> 0,
     next |-> NoUrl, previous |-> NoUrl, results |-> 0]

InitLists ==
    /\ rowcount = [e \in ListEndpoints |-> 0]
    /\ listing = NoListing

\* A row is added to a table by some other request.
RowInserted(e) ==
    /\ rowcount[e] < MaxRows
    /\ rowcount' = [rowcount EXCEPT ![e] = @ + 1]
    /\ UNCHANGED <<rlsVars, sh, jobVars, cacheVars, wsVars, rateVars, lokiVars, tilerVars, listing, sourceVars, projectVars, keycloakVars, accountVars, etlVars, searchVars, enrichVars, shapefileVars, csvVars, geojsonVars, singletonVars, uploadVars>>

\* A row is deleted from a table by some other request.
RowDeleted(e) ==
    /\ rowcount[e] > 0
    /\ rowcount' = [rowcount EXCEPT ![e] = @ - 1]
    /\ UNCHANGED <<rlsVars, sh, jobVars, cacheVars, wsVars, rateVars, lokiVars, tilerVars, listing, sourceVars, projectVars, keycloakVars, accountVars, etlVars, searchVars, enrichVars, shapefileVars, csvVars, geojsonVars, singletonVars, uploadVars>>

\* offset = (page - 1) * page_size
Offset(page, page_size) == (page - 1) * page_size

\* The number of rows select(...).offset(offset).limit(page_size) returns
\* from a table of total rows.
SelectedRows(total, offset, page_size) ==
    IF total <= offset THEN 0
    ELSE IF total - offset < page_size THEN total - offset
    ELSE page_size

\* f"/api/v1/sources/?page={page}&page_size={page_size}"
PageUrl(path, page, page_size) ==
    [path |-> path, page |-> page, page_size |-> page_size]

\* list_sources
ListSources(page, page_size) ==
    /\ LET offset == Offset(page, page_size)
           total == rowcount["sources"]
       IN listing' =
            [endpoint |-> "sources", page |-> page, page_size |-> page_size,
             count |-> total,
             next |-> IF offset + page_size < total
                      THEN PageUrl("/api/v1/sources/", page + 1, page_size)
                      ELSE NoUrl,
             previous |-> IF page > 1
                          THEN PageUrl("/api/v1/sources/", page - 1, page_size)
                          ELSE NoUrl,
             results |-> SelectedRows(total, offset, page_size)]
    /\ UNCHANGED <<rlsVars, sh, jobVars, cacheVars, wsVars, rateVars, lokiVars, tilerVars, rowcount, sourceVars, projectVars, keycloakVars, accountVars, etlVars, searchVars, enrichVars, shapefileVars, csvVars, geojsonVars, singletonVars, uploadVars>>

\* list_layers
ListLayers(page, page_size) ==
    /\ LET offset == Offset(page, page_size)
           total == rowcount["layers"]
       IN listing' =
            [endpoint |-> "layers", page |-> page, page_size |-> page_size,
             count |-> total, next |-> NoUrl, previous |-> NoUrl,
             results |-> SelectedRows(total, offset, page_size)]
    /\ UNCHANGED <<rlsVars, sh, jobVars, cacheVars, wsVars, rateVars, lokiVars, tilerVars, rowcount, sourceVars, projectVars, keycloakVars, accountVars, etlVars, searchVars, enrichVars, shapefileVars, csvVars, geojsonVars, singletonVars, uploadVars>>

\* list_projects
ListProjects(page, page_size) ==
    /\ LET offset == Offset(page, page_size)
           total == rowcount["projects"]
       IN listing' =
            [endpoint |-> "projects", page |-> page, page_size |-> page_size,
             count |-> total, next |-> NoUrl, previous |-> NoUrl,
             results |-> SelectedRows(total, offset, page_size)]
    /\ UNCHANGED <<rlsVars, sh, jobVars, cacheVars, wsVars, rateVars, lokiVars, tilerVars, rowcount, sourceVars, projectVars, keycloakVars, accountVars, etlVars, searchVars, enrichVars, shapefileVars, csvVars, geojsonVars, singletonVars, uploadVars>>

NextLists ==
    \/ \E e \in ListEndpoints : RowInserted(e)
    \/ \E e \in ListEndpoints : RowDeleted(e)
    \/ \E page \in Pages, page_size \in PageSizes : ListSources(page, page_size)
    \/ \E page \in Pages, page_size \in PageSizes : ListLayers(page, page_size)
    \/ \E page \in Pages, page_size \in PageSizes : ListProjects(page, page_size)

(***************************************************************************)
(* C15.  Every answer of the Sources, Layers and Projects list endpoints,  *)
(* with offset = (page - 1) * page_size and total the number of rows, has  *)
(* next non-null exactly when offset + page_size < total, previous         *)
(* non-null exactly when page > 1, and min(page_size, max(0, total -       *)
(* offset)) rows in results.                                               *)
(***************************************************************************)
C15_PaginationEnvelope ==
    listing.endpoint # None
      => LET offset == (listing.page - 1) * listing.page_size
             total == listing.count
             left == IF total - offset > 0 THEN total - offset ELSE 0
         IN /\ (listing.next # NoUrl) <=> (offset + listing.page_size < total)
            /\ (listing.previous # NoUrl) <=> (listing.page > 1)
            /\ listing.results
                 = IF listing.page_size < left THEN listing.page_size ELSE left

-----------------------------------------------------------------------------
(***************************************************************************)
(* Source write routes (routes/sources.py) over the Source model           *)
(* (models/source.py).                                                     *)
(*                                                                         *)
(* The mapped class Source has the columns id, sid, name, description,     *)
(* source_type, attributes and the two timestamps, and no owner_id.  Its   *)
(* table core_source is shared with other writers (imports, the legacy     *)
(* application).  A row is modelled by its name and description.           *)
(***************************************************************************)
MaxSources == 2

SourceIds == 1..MaxSources
SourceNames == {"roads", "rivers"}
SourceDescriptions == {None, "text"}

\* SourceCreate: name is required, description defaults to None.
SourceCreatePayloads == [name : SourceNames, description : SourceDescriptions]

\* SourceUpdate: the fields the request body sets (exclude_unset).
SourceUpdatePayloads ==
    [name_set : BOOLEAN, name : SourceNames,
     description_set : BOOLEAN, description : SourceDescriptions]

\* creator is history: the user whose create_source stored the row, None
\* for a row of another writer.
NoSource == [exists |-> FALSE, name |-> None, description |-> None,
             creator |-> None]
NoSourceReply == [op |-> None, source |-> 0, caller |-> None, code |-> 0]

InitSources ==
    /\ sources = [s \in SourceIds |-> NoSource]
    /\ sreply = NoSourceReply

\* Source(**kwargs): the declarative constructor accepts the mapped
\* attributes only and raises TypeError for any other keyword.
SourceConstructorAccepts(keyword) ==
    keyword \in {"sid", "name", "description", "source_type", "attributes"}

\* create_source: Source(**payload.model_dump(), owner_id=user.id), add,
\* commit.
CreateSource(u, payload) ==
    /\ \E s \in SourceIds :
         /\ ~sources[s].exists
         /\ \A k \in SourceIds : k < s => sources[k].exists
         /\ IF SourceConstructorAccepts("owner_id")
            THEN /\ sources' = [sources EXCEPT ![s] =
                       [exists |-> TRUE, name |-> payload.name,
                        description |-> payload.description, creator |-> u]]
                 /\ sreply' = [op |-> "create", source |-> s, caller |-> u,
                               code |-> 201]
            ELSE \* TypeError: the request ends with 500
                 /\ sources' = sources
                 /\ sreply' = [op |-> "create", source |-> 0, caller |-> u,
                               code |-> 500]
    /\ UNCHANGED <<rlsVars, sh, jobVars, cacheVars, wsVars, rateVars, lokiVars, tilerVars, listVars, projectVars, keycloakVars, accountVars, etlVars, searchVars, enrichVars, shapefileVars, csvVars, geojsonVars, singletonVars, uploadVars>>

\* A writer other than this service stores a row in core_source.
SourceLoaded(payload) ==
    /\ \E s \in SourceIds :
         /\ ~sources[s].exists
         /\ \A k \in SourceIds : k < s => sources[k].exists
         /\ sources' = [sources EXCEPT ![s] =
               [exists |-> TRUE, name |-> payload.name,
                description |-> payload.description, creator |-> None]]
    /\ UNCHANGED <<rlsVars, sh, jobVars, cacheVars, wsVars, rateVars, lokiVars, tilerVars, listVars, sreply, projectVars, keycloakVars, accountVars, etlVars, searchVars, enrichVars, shapefileVars, csvVars, geojsonVars, singletonVars, uploadVars>>

\* hasattr(source, "owner_id")
HasOwnerId(source) == "owner_id" \in DOMAIN source

\* The checks update_source, partial_update_source and delete_source
\* begin with: 404 for no row, 403 when the row has an owner_id that is
\* not the caller's id, else the code of success.
SourceWriteCode(s, u, ok) ==
    IF ~sources[s].exists THEN 404
    ELSE IF HasOwnerId(sources[s]) /\ sources[s].owner_id # u THEN 403
    ELSE ok

\* update_source (PUT): every field of SourceCreate is assigned.
UpdateSource(u, s, payload) ==
    /\ LET code == SourceWriteCode(s, u, 200)
       IN /\ sreply' = [op |-> "put", source |-> s, caller |-> u, code |-> code]
          /\ sources' = IF code = 200
                        THEN [sources EXCEPT ![s].name = payload.name,
                                             ![s].description = payload.description]
                        ELSE sources
    /\ UNCHANGED <<rlsVars, sh, jobVars, cacheVars, wsVars, rateVars, lokiVars, tilerVars, listVars, projectVars, keycloakVars, accountVars, etlVars, searchVars, enrichVars, shapefileVars, csvVars, geojsonVars, singletonVars, uploadVars>>

\* partial_update_source (PATCH): the fields the body sets are assigned.
PartialUpdateSource(u, s, payload) ==
    /\ LET code == SourceWriteCode(s, u, 200)
       IN /\ sreply' = [op |-> "patch", source |-> s, caller |-> u, code |-> code]
          /\ sources' =
               IF code = 200
               THEN [sources EXCEPT
                       ![s].name = IF payload.name_set THEN payload.name ELSE @,
                       ![s].description = IF payload.description_set
                                          THEN payload.description ELSE @]
               ELSE sources
    /\ UNCHANGED <<rlsVars, sh, jobVars, cacheVars, wsVars, rateVars, lokiVars, tilerVars, listVars, projectVars, keycloakVars, accountVars, etlVars, searchVars, enrichVars, shapefileVars, csvVars, geojsonVars, singletonVars, uploadVars>>

\* delete_source
DeleteSource(u, s) ==
    /\ LET code == SourceWriteCode(s, u, 204)
       IN /\ sreply' = [op |-> "delete", source |-> s, caller |-> u, code |-> code]
          /\ sources' = IF code = 204
                        THEN [sources EXCEPT ![s] = NoSource]
                        ELSE sources
    /\ UNCHANGED <<rlsVars, sh, jobVars, cacheVars, wsVars, rateVars, lokiVars, tilerVars, listVars, projectVars, keycloakVars, accountVars, etlVars, searchVars, enrichVars, shapefileVars, csvVars, geojsonVars, singletonVars, uploadVars>>

NextSources ==
    \/ \E u \in Users, payload \in SourceCreatePayloads : CreateSource(u, payload)
    \/ \E payload \in SourceCreatePayloads : SourceLoaded(payload)
    \/ \E u \in Users, s \in SourceIds, payload \in SourceCreatePayloads :
         UpdateSource(u, s, payload)
    \/ \E u \in Users, s \in SourceIds, payload \in SourceUpdatePayloads :
         PartialUpdateSource(u, s, payload)
    \/ \E u \in Users, s \in SourceIds : DeleteSource(u, s)

\* A PUT, PATCH or DELETE of source s by user u.
SourceWrite(u, s) ==
    \/ \E payload \in SourceCreatePayloads : UpdateSource(u, s, payload)
    \/ \E payload \in SourceUpdatePayloads : PartialUpdateSource(u, s, payload)
    \/ DeleteSource(u, s)

(***************************************************************************)
(* C16.  create_source by user A stores a Source that is A's; every PUT,   *)
(* PATCH or DELETE of a Source by an authenticated user who did not create *)
(* it answers 403 and leaves it unchanged, the same request by its creator *)
(* succeeds, and a request answered 403 or 404 changes no Source.          *)
(***************************************************************************)
C16_OnlyCreatorWritesSource ==
    [][/\ \A u \in Users, payload \in SourceCreatePayloads :
            CreateSource(u, payload)
              => /\ sreply'.code = 201
                 /\ sources'[sreply'.source].creator = u
       /\ \A u \in Users, s \in SourceIds :
            SourceWrite(u, s)
              => /\ (sources[s].exists /\ sources[s].creator # u)
                      => sreply'.code = 403
                 /\ (sources[s].exists /\ sources[s].creator = u)
                      => sreply'.code \in {200, 204}
                 /\ sreply'.code \in {403, 404} => sources' = sources]_vars

-----------------------------------------------------------------------------
(***************************************************************************)
(* Project routes (routes/projects.py) and the Project / Layer association *)
(* core_layer_projects (models/layer.py, models/project.py).               *)
(*                                                                         *)
(* layers is the set of ids of the Layer rows; a Project row is modelled   *)
(* by its name and the set of ids of its member layers.  layer_ids of a    *)
(* request body is modelled by the set of its elements.                    *)
(***************************************************************************)
MaxLayers == 2
MaxProjects == 1

LayerIds == 1..MaxLayers
ProjectIds == 1..MaxProjects
ProjectNames == {"plan", "survey"}

\* ProjectCreate: layer_ids defaults to [].
ProjectCreatePayloads == [name : ProjectNames, layer_ids : SUBSET LayerIds]

\* ProjectUpdate: name and layer_ids are None unless the body sets them.
ProjectUpdatePayloads ==
    [name_set : BOOLEAN, name : ProjectNames,
     layer_ids_set : BOOLEAN, layer_ids : SUBSET LayerIds]

NoProject == [exists |-> FALSE, name |-> None, layers |-> {}]
NoProjectReply ==
    [op |-> None, project |-> 0, code |-> 0,
     layer_ids_set |-> FALSE, layer_ids |-> {}]

InitProjects ==
    /\ layers = {}
    /\ projects = [p \in ProjectIds |-> NoProject]
    /\ preply = NoProjectReply

\* create_layer, as far as the Layer table goes.
CreateLayer(l) ==
    /\ l \notin layers
    /\ layers' = layers \cup {l}
    /\ UNCHANGED <<rlsVars, sh, jobVars, cacheVars, wsVars, rateVars, lokiVars, tilerVars, listVars, sourceVars, projects, preply, keycloakVars, accountVars, etlVars, searchVars, enrichVars, shapefileVars, csvVars, geojsonVars, singletonVars, uploadVars>>

\* delete_layer: the Layer row goes, and its rows of the association.
DeleteLayer(l) ==
    /\ l \in layers
    /\ layers' = layers \ {l}
    /\ projects' = [p \in ProjectIds |->
                      [projects[p] EXCEPT !.layers = @ \ {l}]]
    /\ UNCHANGED <<rlsVars, sh, jobVars, cacheVars, wsVars, rateVars, lokiVars, tilerVars, listVars, sourceVars, preply, keycloakVars, accountVars, etlVars, searchVars, enrichVars, shapefileVars, csvVars, geojsonVars, singletonVars, uploadVars>>

SelectLayersUnchecked(layer_ids) == layer_ids

\* select(Layer).where(Layer.id.in_(layer_ids)): the Layers that exist.
SelectLayers(layer_ids) == layer_ids \cap layers

\* create_project: the association is assigned when layer_ids is not empty.
CreateProject(payload) ==
    /\ \E p \in ProjectIds :
         /\ ~projects[p].exists
         /\ \A k \in ProjectIds : k < p => projects[k].exists
         /\ projects' = [projects EXCEPT ![p] =
               [exists |-> TRUE, name |-> payload.name,
                layers |-> IF payload.layer_ids # {}
                           THEN SelectLayers(payload.layer_ids)
                           ELSE {}]]
         /\ preply' = [op |-> "create", project |-> p, code |-> 201,
                       layer_ids_set |-> TRUE, layer_ids |-> payload.layer_ids]
    /\ UNCHANGED <<rlsVars, sh, jobVars, cacheVars, wsVars, rateVars, lokiVars, tilerVars, listVars, sourceVars, layers, keycloakVars, accountVars, etlVars, searchVars, enrichVars, shapefileVars, csvVars, geojsonVars, singletonVars, uploadVars>>

\* update_project (PUT): layer_ids of a ProjectCreate is never None.
UpdateProject(p, payload) ==
    /\ IF ~projects[p].exists
       THEN /\ preply' = [NoProjectReply EXCEPT !.op = "put", !.project = p,
                                                !.code = 404]
            /\ projects' = projects
       ELSE /\ projects' = [projects EXCEPT
                              ![p].name = payload.name,
                              ![p].layers = SelectLayers(payload.layer_ids)]
            /\ preply' = [op |-> "put", project |-> p, code |-> 200,
                          layer_ids_set |-> TRUE,
                          layer_ids |-> payload.layer_ids]
    /\ UNCHANGED <<rlsVars, sh, jobVars, cacheVars, wsVars, rateVars, lokiVars, tilerVars, listVars, sourceVars, layers, keycloakVars, accountVars, etlVars, searchVars, enrichVars, shapefileVars, csvVars, geojsonVars, singletonVars, uploadVars>>

\* partial_update_project (PATCH): the association is assigned when
\* payload.layer_ids is not None.
PartialUpdateProject(p, payload) ==
    /\ IF ~projects[p].exists
       THEN /\ preply' = [NoProjectReply EXCEPT !.op = "patch", !.project = p,
                                                !.code = 404]
            /\ projects' = projects
       ELSE /\ projects' = [projects EXCEPT
                              ![p].name = IF payload.name_set
                                          THEN payload.name ELSE @,
                              ![p].layers = IF payload.layer_ids_set
                                            THEN SelectLayers(payload.layer_ids)
                                            ELSE @]
            /\ preply' = [op |-> "patch", project |-> p, code |-> 200,
                          layer_ids_set |-> payload.layer_ids_set,
                          layer_ids |-> IF payload.layer_ids_set
                                        THEN payload.layer_ids ELSE {}]
    /\ UNCHANGED <<rlsVars, sh, jobVars, cacheVars, wsVars, rateVars, lokiVars, tilerVars, listVars, sourceVars, layers, keycloakVars, accountVars, etlVars, searchVars, enrichVars, shapefileVars, csvVars, geojsonVars, singletonVars, uploadVars>>

\* delete_project
DeleteProject(p) ==
    /\ IF ~projects[p].exists
       THEN /\ preply' = [NoProjectReply EXCEPT !.op = "delete", !.project = p,
                                                !.code = 404]
            /\ projects' = projects
       ELSE /\ projects' = [projects EXCEPT ![p] = NoProject]
            /\ preply' = [NoProjectReply EXCEPT !.op = "delete", !.project = p,
                                                !.code = 204]
    /\ UNCHANGED <<rlsVars, sh, jobVars, cacheVars, wsVars, rateVars, lokiVars, tilerVars, listVars, sourceVars, layers, keycloakVars, accountVars, etlVars, searchVars, enrichVars, shapefileVars, csvVars, geojsonVars, singletonVars, uploadVars>>

NextProjects ==
    \/ \E l \in LayerIds : CreateLayer(l)
    \/ \E l \in LayerIds : DeleteLayer(l)
    \/ \E payload \in ProjectCreatePayloads : CreateProject(payload)
    \/ \E p \in ProjectIds, payload \in ProjectCreatePayloads :
         UpdateProject(p, payload)
    \/ \E p \in ProjectIds, payload \in ProjectUpdatePayloads :
         PartialUpdateProject(p, payload)
    \/ \E p \in ProjectIds : DeleteProject(p)

-----------------------------------------------------------------------------
(***************************************************************************)
(* Keycloak flow: app/core/keycloak.py and app/routes/auth_keycloak.py.    *)
(* The provider's answer to a request is an input: "200", "200_malformed"  *)
(* (status 200 whose JSON lacks the fields the code reads), "non200" or    *)
(* "unreachable".  HTTP status codes are integers; 0 is no response.       *)
(***************************************************************************)
ProviderAnswers == {"200", "200_malformed", "non200", "unreachable"}

CallbackCodes == {"None", "", "abc"}

CallbackErrors == {"None", "", "access_denied"}

\* Python truthiness of an optional string query parameter.
Truthy(param) == param \notin {"None", ""}

\* The value handed to ASGITransport(app=...) by both helpers.
ASGITransportApp == "None"

\* client.get / client.post through AsyncClient(transport=ASGITransport(app)):
\* the transport awaits app(scope, receive, send) and lets the application's
\* exception through, so with app None the call raises TypeError; a
\* transport that reached the provider would give its answer, or raise
\* ConnectError when the provider is unreachable.
ClientRequest(answer) ==
    IF ASGITransportApp = "None" THEN "TypeError"
    ELSE IF answer = "unreachable" THEN "ConnectError"
    ELSE answer

RequestRaised(response) == response \in {"TypeError", "ConnectError"}

\* get_keycloak_userinfo: the status of the HTTPException it raises, or 200
\* when it returns a KeycloakUserInfo.  The HTTPException(401) for a non-200
\* answer is raised inside the try block, whose `except Exception` handler
\* catches it with every other exception and raises HTTPException(503).
GetKeycloakUserinfo(answer) ==
    LET response == ClientRequest(answer)
        tryBlock == IF RequestRaised(response) THEN response
                    ELSE IF response # "200"
                         THEN IF response = "non200" THEN "HTTPException401"
                              ELSE "ValidationError"
                         ELSE "return"
    IN  IF tryBlock = "return" THEN 200 ELSE 503

\* get_keycloak_token: as above with HTTPException(400) for a non-200 answer;
\* the JSON of a 200 answer is returned unvalidated.
GetKeycloakToken(answer) ==
    LET token_response == ClientRequest(answer)
        tryBlock == IF RequestRaised(token_response) THEN token_response
                    ELSE IF token_response = "non200" THEN "HTTPException400"
                    ELSE "return"
    IN  IF tryBlock = "return" THEN 200 ELSE 503

NoKeycloakCall ==
    [op |-> "none", code |-> "None", error |-> "None",
     token_answer |-> "200", userinfo_answer |-> "200", status |-> 0]

InitKeycloak == kc = NoKeycloakCall

\* GET /callback: keycloak_callback.
CallbackStatus(code, error, token_answer, userinfo_answer) ==
    IF Truthy(error) THEN 400
    ELSE IF ~Truthy(code) THEN 400
    ELSE LET token == GetKeycloakToken(token_answer)
         IN  IF token # 200 THEN token                 \* except HTTPException: raise
             ELSE IF token_answer = "200_malformed"
                  THEN 500                             \* KeyError "access_token"
                  ELSE GetKeycloakUserinfo(userinfo_answer)

KeycloakCallback(code, error, token_answer, userinfo_answer) ==
    /\ kc' = [op |-> "callback", code |-> code, error |-> error,
              token_answer |-> token_answer,
              userinfo_answer |-> userinfo_answer,
              status |-> CallbackStatus(code, error, token_answer,
                                        userinfo_answer)]
    /\ UNCHANGED <<rlsVars, sh, jobVars, cacheVars, wsVars, rateVars, lokiVars, tilerVars, listVars, sourceVars, projectVars, accountVars, etlVars, searchVars, enrichVars, shapefileVars, csvVars, geojsonVars, singletonVars, uploadVars>>

\* GET /userinfo: keycloak_userinfo, whose dependency is get_keycloak_userinfo.
KeycloakUserinfo(userinfo_answer) ==
    /\ kc' = [NoKeycloakCall EXCEPT !.op = "userinfo",
                                    !.userinfo_answer = userinfo_answer,
                                    !.status = GetKeycloakUserinfo(userinfo_answer)]
    /\ UNCHANGED <<rlsVars, sh, jobVars, cacheVars, wsVars, rateVars, lokiVars, tilerVars, listVars, sourceVars, projectVars, accountVars, etlVars, searchVars, enrichVars, shapefileVars, csvVars, geojsonVars, singletonVars, uploadVars>>

NextKeycloak ==
    \/ \E code \in CallbackCodes, error \in CallbackErrors,
          token_answer \in ProviderAnswers, userinfo_answer \in ProviderAnswers :
          KeycloakCallback(code, error, token_answer, userinfo_answer)
    \/ \E userinfo_answer \in ProviderAnswers : KeycloakUserinfo(userinfo_answer)

\* The userinfo fetch was made: directly, or by a callback whose token
\* exchange was answered with a usable token.
UserinfoFetched ==
    \/ kc.op = "userinfo"
    \/ /\ kc.op = "callback"
       /\ Truthy(kc.code)
       /\ ~Truthy(kc.error)
       /\ kc.token_answer = "200"

(***************************************************************************)
(* C18.  A non-200 answer of the provider's userinfo endpoint reaches the  *)
(* caller as 401 and an unreachable provider as 503, for the token         *)
(* exchange and for the userinfo fetch; a callback without an              *)
(* authorization code or with an error parameter reaches the caller as     *)
(* 400.                                                                    *)
(***************************************************************************)
C18_UpstreamFailuresDistinguished ==
    /\ (UserinfoFetched /\ kc.userinfo_answer = "non200") => kc.status = 401
    /\ (UserinfoFetched /\ kc.userinfo_answer = "unreachable") => kc.status = 503
    /\ (kc.op = "callback" /\ Truthy(kc.code) /\ ~Truthy(kc.error)
          /\ kc.token_answer = "unreachable") => kc.status = 503
    /\ (kc.op = "callback" /\ Truthy(kc.code) /\ ~Truthy(kc.error)
          /\ kc.token_answer = "non200") => kc.status # 503
    /\ (kc.op = "callback" /\ (Truthy(kc.error) \/ ~Truthy(kc.code)))
          => kc.status = 400

-----------------------------------------------------------------------------
(***************************************************************************)
(* Local accounts of external-identity-provider subjects:                  *)
(* KeycloakUserManager.authenticate in app/core/keycloak.py over the user  *)
(* database of app/core/users.py and the User model of app/models/user.py. *)
(***************************************************************************)
MaxCalls == 3

MaxUsers == 2

AuthCalls == 1..MaxCalls

Subjects == {"sub-1", "sub-2"}

Emails == {"None", "a@example.org", "b@example.org"}

\* KeycloakUserInfo: sub is required, email is optional.
UserInfos == [sub : Subjects, email : Emails]

\* The public coroutines of the object get_user_db yields:
\* SQLAlchemyUserDatabase(session, User).
UserDbMethods ==
    {"get", "get_by_email", "get_by_oauth_account", "create", "update",
     "delete", "add_oauth_account", "update_oauth_account"}

\* The mapped columns of User: those of SQLAlchemyBaseUserTable and id.
UserColumns ==
    {"id", "email", "hashed_password", "is_active", "is_superuser",
     "is_verified"}

NoAuthCall == [pc |-> "idle", sub |-> "None", email |-> "None", raised |-> "None"]

InitAccounts ==
    /\ users = {}
    /\ auth = [c \in AuthCalls |-> NoAuthCall]

\* POST /api/v1/auth/register: the register router stores a User row with
\* the columns of the model; an email already taken is refused.
RegisterUser(email) ==
    /\ email # "None"
    /\ Cardinality(users) < MaxUsers
    /\ \A u \in users : u.email # email
    /\ users' = users \cup {[id |-> Cardinality(users) + 1, email |-> email,
                             hashed_password |-> "hash"]}
    /\ UNCHANGED <<auth, rlsVars, sh, jobVars, cacheVars, wsVars, rateVars, lokiVars, tilerVars, listVars, sourceVars, projectVars, keycloakVars, etlVars, searchVars, enrichVars, shapefileVars, csvVars, geojsonVars, singletonVars, uploadVars>>

\* The rows of auth_user that carry subject s.  No column holds a subject,
\* so no row does.
AccountsOf(s) ==
    {u \in users : "keycloak_id" \in UserColumns
                   /\ "keycloak_id" \in DOMAIN u
                   /\ u.keycloak_id = s}

\* Line 149: evaluating self.user_db.get_by_attribute raises AttributeError
\* when the user database has no such attribute.
LookupRaises == "get_by_attribute" \notin UserDbMethods

\* authenticate(user_db, userinfo), call c.  The attribute access of line
\* 149 comes before the first await of the coroutine, so a call that raises
\* there is one step; lines 151-175 (create on None, update otherwise) are
\* not reached.
Authenticate(c, userinfo) ==
    /\ auth[c].pc = "idle"
    /\ LookupRaises
    /\ auth' = [auth EXCEPT ![c] = [pc |-> "raised", sub |-> userinfo.sub,
                                    email |-> userinfo.email,
                                    raised |-> "AttributeError"]]
    /\ UNCHANGED <<users, rlsVars, sh, jobVars, cacheVars, wsVars, rateVars, lokiVars, tilerVars, listVars, sourceVars, projectVars, keycloakVars, etlVars, searchVars, enrichVars, shapefileVars, csvVars, geojsonVars, singletonVars, uploadVars>>

NextAccounts ==
    \/ \E email \in Emails : RegisterUser(email)
    \/ \E c \in AuthCalls, userinfo \in UserInfos : Authenticate(c, userinfo)

\* An authenticate call for subject s has finished.
LoggedIn(s) == \E c \in AuthCalls : auth[c].pc # "idle" /\ auth[c].sub = s

-----------------------------------------------------------------------------
(***************************************************************************)
(* process_etl_job (tasks/etl_tasks.py) over the rows of core_source.      *)
(* One execution of the task body is one step; request.retries is the      *)
(* retry count Celery hands to the execution.  The body is modelled as it  *)
(* reads: as written `async with` and `await` stand in a plain def, which  *)
(* the compiler refuses (SyntaxError at line 71), so the module cannot be  *)
(* imported and no execution takes place at all.                           *)
(***************************************************************************)
EtlOperations == {"process", "import", "transform", "merge"}

\* What the awaits of the try block meet: nothing, an exception of the
\* database driver, or the worker's soft time limit.
EtlIo == {"ok", "raises", "timeout"}

\* The mapped columns of Source.
SourceColumns ==
    {"id", "sid", "name", "description", "source_type", "attributes",
     "created_at", "updated_at"}

NoEtlTask ==
    [state |-> "none", source_id |-> 0, operation |-> None, retries |-> 0,
     runs |-> 0, exc |-> None, error |-> None,
     result |-> [status |-> None, error |-> None]]

InitEtl == etl = NoEtlTask

\* process_etl_job.delay(...) of submit_etl_job.
EtlEnqueue(s, operation) ==
    /\ etl.state = "none"
    /\ etl' = [NoEtlTask EXCEPT !.state = "PENDING", !.source_id = s,
                                !.operation = operation]
    /\ UNCHANGED <<rlsVars, sh, jobVars, cacheVars, wsVars, rateVars, lokiVars, tilerVars, listVars, sourceVars, projectVars, keycloakVars, accountVars, searchVars, enrichVars, shapefileVars, csvVars, geojsonVars, singletonVars, uploadVars>>

\* session.commit() after attribute assignments on a loaded Source: the
\* unit of work writes the mapped columns; any other attribute stays on the
\* Python object and is gone with the session.
CommitSource(row, assigned) ==
    [f \in DOMAIN row |->
        IF f \in DOMAIN assigned /\ f \in SourceColumns THEN assigned[f]
        ELSE row[f]]

\* _mark_source_failed(source_id, error): the table after the call.
MarkSourceFailed(s, error) ==
    IF sources[s].exists
    THEN [sources EXCEPT ![s] =
            CommitSource(@, [status |-> "failed", error_message |-> error])]
    ELSE sources

\* The try block: the exception that leaves it.  After the operation has
\* returned, line 91 reads the name datetime, which the module never
\* imports: NameError, so no execution reaches the return of line 96.
EtlTryBlock(s, operation, io) ==
    IF io = "timeout" THEN [exc |-> "SoftTimeLimitExceeded", str |-> "timed out"]
    ELSE IF io = "raises" THEN [exc |-> "DBAPIError", str |-> "connection lost"]
    ELSE IF ~sources[s].exists
         THEN [exc |-> "ValueError", str |-> "Source not found"]
    ELSE IF operation \notin {"process", "import", "transform"}
         THEN [exc |-> "ValueError", str |-> "Unknown operation"]
    ELSE [exc |-> "NameError", str |-> "name 'datetime' is not defined"]

\* One execution by a worker: try block and exception handlers.
\*   SoftTimeLimitExceeded: mark "Task timed out", re-raise (FAILURE);
\*   Exception: mark str(e); self.retry while request.retries <
\*   max_retries (RETRY), else return the failure dict, which Celery stores
\*   as the result of a task that succeeded.
EtlRun(io) ==
    /\ etl.state \in {"PENDING", "RETRY"}
    /\ LET s == etl.source_id
           raised == EtlTryBlock(s, etl.operation, io)
           ran == [etl EXCEPT !.runs = @ + 1, !.exc = raised.exc]
       IN  IF raised.exc = "SoftTimeLimitExceeded"
           THEN /\ sources' = MarkSourceFailed(s, "Task timed out")
                /\ etl' = [ran EXCEPT !.state = "FAILURE",
                                      !.error = "Task timed out"]
           ELSE /\ sources' = MarkSourceFailed(s, raised.str)
                /\ etl' = IF etl.retries < TaskMaxRetries
                          THEN [ran EXCEPT !.state = "RETRY",
                                           !.retries = @ + 1,
                                           !.error = raised.str]
                          ELSE [ran EXCEPT !.state = "SUCCESS",
                                           !.error = raised.str,
                                           !.result = [status |-> TaskStatus_FAILURE,
                                                       error |-> raised.str]]
    /\ UNCHANGED <<rlsVars, sh, jobVars, cacheVars, wsVars, rateVars, lokiVars, tilerVars, listVars, sreply, projectVars, keycloakVars, accountVars, searchVars, enrichVars, shapefileVars, csvVars, geojsonVars, singletonVars, uploadVars>>

NextEtl ==
    \/ \E s \in SourceIds, operation \in EtlOperations : EtlEnqueue(s, operation)
    \/ \E io \in EtlIo : EtlRun(io)
    \/ \E payload \in SourceCreatePayloads : SourceLoaded(payload)
    \/ \E u \in Users, s \in SourceIds : DeleteSource(u, s)

\* The stored row says failed, with the given message.
SourceMarkedFailed(row, error) ==
    /\ "status" \in DOMAIN row
    /\ "error_message" \in DOMAIN row
    /\ row.status = "failed"
    /\ row.error_message = error

(***************************************************************************)
(* C20.  process_etl_job is executed at most 4 times (the first run plus   *)
(* 3 retries) when its operation keeps raising a generic exception; each   *)
(* failed run marks the Source failed with the error message; the run      *)
(* that exhausts the budget returns a failure result carrying the error;   *)
(* a soft-time-limit breach marks the Source failed and is never retried.  *)
(***************************************************************************)
C20_RetryBudgetAndFailureMark ==
    [][ etl'.runs = etl.runs + 1 =>
          /\ etl'.runs <= TaskMaxRetries + 1
          /\ etl.exc # "SoftTimeLimitExceeded"
          /\ sources[etl.source_id].exists =>
                SourceMarkedFailed(sources'[etl.source_id], etl'.error)
          /\ (etl'.exc # "SoftTimeLimitExceeded" /\ etl.retries < TaskMaxRetries)
                => etl'.state = "RETRY"
          /\ (etl'.exc # "SoftTimeLimitExceeded" /\ etl.retries = TaskMaxRetries)
                => /\ etl'.state = "SUCCESS"
                   /\ etl'.result = [status |-> TaskStatus_FAILURE,
                                     error |-> etl'.error]
          /\ etl'.exc = "SoftTimeLimitExceeded" => etl'.state = "FAILURE"
      ]_vars

-----------------------------------------------------------------------------
(***************************************************************************)
(* Semantic search (services/vector_search.py).                            *)
(*                                                                         *)
(* Per entity type the request finds at most one stored row, given by its  *)
(* similarity score (0: none, 1: lower, 2: higher), and the statement of   *)
(* that type may fail on its own.  The three statements run on the one     *)
(* session of the request: PostgreSQL rejects every statement that follows *)
(* a failed one in the same transaction.                                   *)
(***************************************************************************)
EntityTypes == {"source", "layer", "geometry"}

TopKs == {1, 3}

NoSearch ==
    [op |-> None, provider |-> None, source_id |-> FALSE, top_k |-> 0,
     stored |-> [t \in EntityTypes |-> 0],
     fails |-> [t \in EntityTypes |-> FALSE],
     status |-> 0, results |-> <<>>]

InitSearch == ss = NoSearch

\* search_sources / search_layers / search_geometry on a session whose
\* transaction is tx: the rows returned and the transaction afterwards.
\* Any exception of db.execute is caught and gives [].
SearchEntity(t, stored, fails, tx) ==
    IF tx = "aborted" \/ fails
    THEN [rows |-> <<>>, tx |-> "aborted"]
    ELSE [rows |-> IF stored = 0 THEN <<>>
                   ELSE <<[type |-> t, similarity_score |-> stored]>>,
          tx |-> "ok"]

\* all_results.sort(key=similarity_score, reverse=True)[:top_k]; the sort
\* is stable.
RankAndLimit(all_results, top_k) ==
    LET sorted == SelectSeq(all_results, LAMBDA r : r.similarity_score = 2)
                    \o SelectSeq(all_results, LAMBDA r : r.similarity_score = 1)
    IN  SubSeq(sorted, 1, IF Len(sorted) < top_k THEN Len(sorted) ELSE top_k)

\* POST /api/v1/semantic-search/search.  generate_query_embedding returns
\* None when the provider call raises, and the handler answers 503.
SemanticSearch(provider, source_id, top_k, stored, fails) ==
    /\ LET s == IF ~source_id
                THEN SearchEntity("source", stored["source"], fails["source"], "ok")
                ELSE [rows |-> <<>>, tx |-> "ok"]
           l == SearchEntity("layer", stored["layer"], fails["layer"], s.tx)
           g == SearchEntity("geometry", stored["geometry"], fails["geometry"], l.tx)
           request == [NoSearch EXCEPT !.op = "search", !.provider = provider,
                                       !.source_id = source_id, !.top_k = top_k,
                                       !.stored = stored, !.fails = fails]
       IN  ss' = IF provider = "down"
                 THEN [request EXCEPT !.status = 503]
                 ELSE [request EXCEPT !.status = 200,
                         !.results = RankAndLimit(s.rows \o l.rows \o g.rows, top_k)]
    /\ UNCHANGED <<rlsVars, sh, jobVars, cacheVars, wsVars, rateVars, lokiVars, tilerVars, listVars, sourceVars, projectVars, keycloakVars, accountVars, etlVars, enrichVars, shapefileVars, csvVars, geojsonVars, singletonVars, uploadVars>>

NextSearch ==
    \E provider \in {"up", "down"}, source_id \in BOOLEAN, top_k \in TopKs,
       stored \in [EntityTypes -> 0..2], fails \in [EntityTypes -> BOOLEAN] :
       SemanticSearch(provider, source_id, top_k, stored, fails)

\* What each search contributes on its own: nothing when its statement
\* fails (or, for sources, when a source_id is given), else its row.
IsolatedRows(t) ==
    IF ss.fails[t] \/ ss.stored[t] = 0 \/ (t = "source" /\ ss.source_id)
    THEN <<>>
    ELSE <<[type |-> t, similarity_score |-> ss.stored[t]]>>

(***************************************************************************)
(* C21.  When the embedding provider or the vector index is unavailable,   *)
(* semantic_search does not fail the request; the affected entity-type     *)
(* search contributes no results, and a failure in one of the source,      *)
(* layer and geometry searches never removes or alters the results the     *)
(* other two contribute.                                                   *)
(***************************************************************************)
C21_SearchFaultIsolated ==
    ss.op = "search" =>
        /\ ss.status = 200
        /\ ss.results =
             RankAndLimit(IsolatedRows("source") \o IsolatedRows("layer")
                            \o IsolatedRows("geometry"), ss.top_k)

-----------------------------------------------------------------------------
(***************************************************************************)
(* Data enrichment (etl-service/app/enrichment.py).                        *)
(*                                                                         *)
(* A row of the batch is given by what enrich_data does with it: "lookup"  *)
(* (valid lat and lon, no elevation yet), "has_elevation", "no_lat" and    *)
(* "bad_coords".  One call of the elevation API is one step; the waits     *)
(* between attempts are not modelled.                                      *)
(***************************************************************************)
MaxBatch == 2

MAX_RETRIES == 3

RowKinds == {"lookup", "has_elevation", "no_lat", "bad_coords"}

Batches == UNION {[1..n -> RowKinds] : n \in 0..MaxBatch}

\* What one client.get of _fetch_elevation meets.
ApiOutcomes == {"elevation", "no_data", "malformed", "http_error", "network_error"}

NoEnrichment ==
    [pc |-> "idle", data |-> <<>>, i |-> 0, attempt |-> 0,
     calls |-> [r \in 1..MaxBatch |-> 0], last |-> None,
     enriched |-> <<>>, exc |-> None]

InitEnrich == en = NoEnrichment

\* enrich_data(columns, data) is called: [] for no data, else the loop.
EnrichBegin(data) ==
    /\ en.pc \in {"idle", "returned", "raised"}
    /\ en' = [NoEnrichment EXCEPT !.pc = IF data = <<>> THEN "returned" ELSE "running",
                                  !.data = data, !.i = 1]
    /\ UNCHANGED <<rlsVars, sh, jobVars, cacheVars, wsVars, rateVars, lokiVars, tilerVars, listVars, sourceVars, projectVars, keycloakVars, accountVars, etlVars, searchVars, shapefileVars, csvVars, geojsonVars, singletonVars, uploadVars>>

\* The loop body for a row that needs no lookup: the copy is appended.
EnrichRow ==
    /\ en.pc = "running"
    /\ en.i <= Len(en.data)
    /\ en.data[en.i] # "lookup"
    /\ en' = [en EXCEPT !.enriched = Append(@, [kind |-> en.data[en.i],
                                                 elevation |-> "untouched"]),
                        !.i = @ + 1]
    /\ UNCHANGED <<rlsVars, sh, jobVars, cacheVars, wsVars, rateVars, lokiVars, tilerVars, listVars, sourceVars, projectVars, keycloakVars, accountVars, etlVars, searchVars, shapefileVars, csvVars, geojsonVars, singletonVars, uploadVars>>

\* @retry(stop=stop_after_attempt(MAX_RETRIES), ...): no further attempt
\* once the number of attempts made has reached MAX_RETRIES.
StopAfterAttempt(attempt_number) == attempt_number >= MAX_RETRIES

\* One attempt of _fetch_elevation_with_retry for the current row.
\*   elevation: the value; no_data, malformed: None; both continue the loop.
\*   http_error: HTTPStatusError is not of the retried types and leaves
\*     _fetch_elevation_with_retry and enrich_data, which has no handler.
\*   network_error: retried until the stop condition, then RetryError
\*     leaves enrich_data the same way.
ElevationCall(outcome) ==
    /\ en.pc = "running"
    /\ en.i <= Len(en.data)
    /\ en.data[en.i] = "lookup"
    /\ LET called == [en EXCEPT !.calls[en.i] = @ + 1, !.attempt = @ + 1,
                                !.last = outcome]
       IN  en' =
             CASE outcome \in {"elevation", "no_data", "malformed"} ->
                    [called EXCEPT
                       !.enriched = Append(@, [kind |-> "lookup",
                                               elevation |-> IF outcome = "elevation"
                                                             THEN "value" ELSE None]),
                       !.i = @ + 1, !.attempt = 0]
               [] outcome = "http_error" ->
                    [called EXCEPT !.pc = "raised", !.exc = "HTTPStatusError"]
               [] outcome = "network_error" ->
                    IF StopAfterAttempt(called.attempt)
                    THEN [called EXCEPT !.pc = "raised", !.exc = "RetryError"]
                    ELSE called
    /\ UNCHANGED <<rlsVars, sh, jobVars, cacheVars, wsVars, rateVars, lokiVars, tilerVars, listVars, sourceVars, projectVars, keycloakVars, accountVars, etlVars, searchVars, shapefileVars, csvVars, geojsonVars, singletonVars, uploadVars>>

\* return enriched
EnrichReturn ==
    /\ en.pc = "running"
    /\ en.i > Len(en.data)
    /\ en' = [en EXCEPT !.pc = "returned"]
    /\ UNCHANGED <<rlsVars, sh, jobVars, cacheVars, wsVars, rateVars, lokiVars, tilerVars, listVars, sourceVars, projectVars, keycloakVars, accountVars, etlVars, searchVars, shapefileVars, csvVars, geojsonVars, singletonVars, uploadVars>>

NextEnrich ==
    \/ \E data \in Batches : EnrichBegin(data)
    \/ EnrichRow
    \/ \E outcome \in ApiOutcomes : ElevationCall(outcome)
    \/ EnrichReturn

(***************************************************************************)
(* C22.  For one row the elevation lookup is retried up to 3 times after   *)
(* the first call, only after a transient network or timeout error: the    *)
(* lookup gives up on transient errors once the first call and 3 retries   *)
(* have failed; a response with an HTTP error status is never retried; the *)
(* calls for one row never exceed the first call plus the 3 retries.       *)
(***************************************************************************)
C22_ElevationRetryBudget ==
    /\ \A r \in 1..MaxBatch : en.calls[r] <= MAX_RETRIES + 1
    /\ en.exc = "RetryError" =>
         /\ en.last = "network_error"
         /\ en.calls[en.i] = MAX_RETRIES + 1
    /\ en.exc = "HTTPStatusError" => en.last = "http_error"
    /\ (en.pc = "running" /\ en.attempt > 0) => en.last = "network_error"
    /\ en.last = "http_error" => en.pc = "raised"

(***************************************************************************)
(* C23.  enrich_data isolates per-row failures: when the elevation lookup  *)
(* of one row fails for good, the call still returns one output row for    *)
(* every input row, in input order, the other rows enriched as they would  *)
(* have been on their own.                                                 *)
(***************************************************************************)
C23_RowFailuresIsolated ==
    en.pc \in {"returned", "raised"} =>
        /\ en.pc = "returned"
        /\ Len(en.enriched) = Len(en.data)
        /\ \A k \in 1..Len(en.data) : en.enriched[k].kind = en.data[k]

-----------------------------------------------------------------------------
(***************************************************************************)
(* Shapefile import of the monolith (management/commands/                  *)
(* upload_shapefile.py) and the cached attribute summary of a Source       *)
(* (core/models.py).                                                       *)
(*                                                                         *)
(* Sizes are counted in blocks of 1000 consecutive features of the file:   *)
(* block k is features 1000(k-1)+1 .. 1000k, so the thresholds 10000, 5000 *)
(* and 1000 of the code are 10, 5 and 1.  A row of the table is the block  *)
(* it came from, or 0 for a Geometry saved on its own.  The Source of the  *)
(* import exists.                                                          *)
(***************************************************************************)
MaxFeatures == 11

MaxSingles == 1

ParallelThreshold == 10

BatchSize == 5

ChunkSize == 1

NoImport ==
    [pc |-> "idle", n |-> 0, pending |-> {}, geometries |-> <<>>, i |-> 0]

NoSummary == [present |-> FALSE, of |-> <<>>]

InitShapefile ==
    /\ shp = NoImport
    /\ geomtable = <<>>
    /\ summary = NoSummary

\* df.iloc[i:i+batch_size] for the b-th value of i: the blocks of batch b.
BatchBlocks(b, n) ==
    [k \in 1..((IF b * BatchSize < n THEN b * BatchSize ELSE n)
                 - (b - 1) * BatchSize) |-> (b - 1) * BatchSize + k]

\* upload_shapefile_to_geometry_model up to the conversion: over the
\* threshold the batches are submitted to the pool, else the frame is
\* converted in the calling thread.
ShapefileImportBegin(n) ==
    /\ shp.pc = "idle"
    /\ shp' = IF n > ParallelThreshold
              THEN [NoImport EXCEPT !.pc = "converting", !.n = n,
                      !.pending = 1..((n + BatchSize - 1) \div BatchSize)]
              ELSE [NoImport EXCEPT !.pc = "inserting", !.n = n,
                      !.geometries = [k \in 1..n |-> k]]
    /\ UNCHANGED <<geomtable, summary, rlsVars, sh, jobVars, cacheVars, wsVars, rateVars, lokiVars, tilerVars, listVars, sourceVars, projectVars, keycloakVars, accountVars, etlVars, searchVars, enrichVars, csvVars, geojsonVars, singletonVars, uploadVars>>

\* for future in as_completed(futures): the next future to finish, which
\* is any of those not yet taken; its result extends geometries.
BatchCompleted(b) ==
    /\ shp.pc = "converting"
    /\ b \in shp.pending
    /\ shp' = [shp EXCEPT !.pending = @ \ {b},
                          !.geometries = @ \o BatchBlocks(b, shp.n),
                          !.pc = IF shp.pending = {b} THEN "inserting" ELSE @]
    /\ UNCHANGED <<geomtable, summary, rlsVars, sh, jobVars, cacheVars, wsVars, rateVars, lokiVars, tilerVars, listVars, sourceVars, projectVars, keycloakVars, accountVars, etlVars, searchVars, enrichVars, csvVars, geojsonVars, singletonVars, uploadVars>>

\* chunked_bulk_create: one chunk, bulk_create inside transaction.atomic.
\* bulk_create sends no post_save signal.
ChunkCommit ==
    /\ shp.pc = "inserting"
    /\ shp.i < Len(shp.geometries)
    /\ LET chunk_end == IF shp.i + ChunkSize < Len(shp.geometries)
                        THEN shp.i + ChunkSize ELSE Len(shp.geometries)
       IN  /\ geomtable' = geomtable \o SubSeq(shp.geometries, shp.i + 1, chunk_end)
           /\ shp' = [shp EXCEPT !.i = chunk_end]
    /\ UNCHANGED <<summary, rlsVars, sh, jobVars, cacheVars, wsVars, rateVars, lokiVars, tilerVars, listVars, sourceVars, projectVars, keycloakVars, accountVars, etlVars, searchVars, enrichVars, csvVars, geojsonVars, singletonVars, uploadVars>>

\* After the last chunk: update_source_attributes and
\* cache.delete('source_attributes_<id>').
ImportFinish ==
    /\ shp.pc = "inserting"
    /\ shp.i >= Len(shp.geometries)
    /\ shp' = [shp EXCEPT !.pc = "done"]
    /\ summary' = NoSummary
    /\ UNCHANGED <<geomtable, rlsVars, sh, jobVars, cacheVars, wsVars, rateVars, lokiVars, tilerVars, listVars, sourceVars, projectVars, keycloakVars, accountVars, etlVars, searchVars, enrichVars, csvVars, geojsonVars, singletonVars, uploadVars>>

\* Geometry.save() of one instance: post_save runs invalidate_source_cache.
GeometrySaved ==
    /\ Len(SelectSeq(geomtable, LAMBDA r : r = 0)) < MaxSingles
    /\ geomtable' = Append(geomtable, 0)
    /\ summary' = NoSummary
    /\ UNCHANGED <<shp, rlsVars, sh, jobVars, cacheVars, wsVars, rateVars, lokiVars, tilerVars, listVars, sourceVars, projectVars, keycloakVars, accountVars, etlVars, searchVars, enrichVars, csvVars, geojsonVars, singletonVars, uploadVars>>

\* Geometry.delete() of one instance: post_delete runs
\* invalidate_source_cache.
GeometryDeleted ==
    /\ \E k \in 1..Len(geomtable) : geomtable[k] = 0
    /\ geomtable' = SelectSeq(geomtable, LAMBDA r : r # 0)
    /\ summary' = NoSummary
    /\ UNCHANGED <<shp, rlsVars, sh, jobVars, cacheVars, wsVars, rateVars, lokiVars, tilerVars, listVars, sourceVars, projectVars, keycloakVars, accountVars, etlVars, searchVars, enrichVars, csvVars, geojsonVars, singletonVars, uploadVars>>

\* A read of the Source's attribute summary through the cache: served from
\* the entry when there is one, else computed from the table and cached.
ReadSummary ==
    /\ ~summary.present
    /\ summary' = [present |-> TRUE, of |-> geomtable]
    /\ UNCHANGED <<shp, geomtable, rlsVars, sh, jobVars, cacheVars, wsVars, rateVars, lokiVars, tilerVars, listVars, sourceVars, projectVars, keycloakVars, accountVars, etlVars, searchVars, enrichVars, csvVars, geojsonVars, singletonVars, uploadVars>>

NextShapefile ==
    \/ \E n \in 1..MaxFeatures : ShapefileImportBegin(n)
    \/ \E b \in 1..MaxFeatures : BatchCompleted(b)
    \/ ChunkCommit
    \/ ImportFinish
    \/ GeometrySaved
    \/ GeometryDeleted
    \/ ReadSummary

\* The rows of the table that the import inserted, in insertion order.
ImportedRows == SelectSeq(geomtable, LAMBDA r : r # 0)

(***************************************************************************)
(* C24.  The Geometry rows of one Source are inserted in file order, every *)
(* feature of chunk k before any feature of chunk k+1 and chunk boundaries *)
(* following the order of the features in the file, also for datasets of   *)
(* more than 10,000 features converted by the worker pool; a concurrent    *)
(* reader only ever sees a prefix of whole committed chunks.               *)
(***************************************************************************)
C24_ChunksInFileOrder ==
    /\ \A k \in 1..Len(ImportedRows) : ImportedRows[k] = k
    /\ Len(ImportedRows) % ChunkSize = 0 \/ Len(ImportedRows) = shp.n

(***************************************************************************)
(* C26.  After any create, update or delete of a Geometry, those inserted  *)
(* by the chunked bulk inserts of the ingestion commands included, the     *)
(* cached attribute summary of its parent Source has been invalidated: no  *)
(* read that follows the change is served a summary cached before it.      *)
(***************************************************************************)
C26_SummaryNeverStale ==
    summary.present => summary.of = geomtable

-----------------------------------------------------------------------------
(***************************************************************************)
(* CSV import of the monolith (management/commands/upload_csv_file.py).    *)
(*                                                                         *)
(* A row of the file is given by its coordinates: "valid", "blank_both",   *)
(* "blank_lon" (Longitude blank, Latitude not) and "blank_lat" (Latitude   *)
(* blank, Longitude not).  A row of the table is the file row it was built *)
(* from; its primary key is its position in the table.                     *)
(***************************************************************************)
MaxCsvRows == 3

CsvRowKinds == {"valid", "blank_both", "blank_lon", "blank_lat"}

CsvFiles == UNION {[1..n -> CsvRowKinds] : n \in 0..MaxCsvRows}

NoCsvImport ==
    [pc |-> "idle", rows |-> <<>>, i |-> 0, geometries |-> <<>>, exc |-> None]

InitCsv ==
    /\ csvimp = NoCsvImport
    /\ csvtable = <<>>

\* The file is read and parsed: rows = list(csv_reader).
CsvImportBegin(file) ==
    /\ csvimp.pc = "idle"
    /\ csvimp' = [NoCsvImport EXCEPT !.pc = "rows", !.rows = file, !.i = 1]
    /\ UNCHANGED <<csvtable, rlsVars, sh, jobVars, cacheVars, wsVars, rateVars, lokiVars, tilerVars, listVars, sourceVars, projectVars, keycloakVars, accountVars, etlVars, searchVars, enrichVars, shapefileVars, geojsonVars, singletonVars, uploadVars>>

\* row["Longitude"] != "" and float(row["Latitude"]) != "": False for a
\* blank Longitude; otherwise float() is evaluated, which raises ValueError
\* for a blank Latitude and whose result never equals "".
CoordinateTest(kind) ==
    IF kind \in {"blank_both", "blank_lon"} THEN "False"
    ELSE IF kind = "blank_lat" THEN "ValueError"
    ELSE "True"

\* The loop body for one row: Geometry.objects.create(...) inserts the row
\* at once and the saved instance, primary key set, joins geometries.
CsvRow ==
    /\ csvimp.pc = "rows"
    /\ csvimp.i <= Len(csvimp.rows)
    /\ LET test == CoordinateTest(csvimp.rows[csvimp.i])
       IN  CASE test = "True" ->
                  /\ csvtable' = Append(csvtable, csvimp.i)
                  /\ csvimp' = [csvimp EXCEPT
                        !.geometries = Append(@, [pk |-> Len(csvtable) + 1,
                                                  row |-> csvimp.i]),
                        !.i = @ + 1]
             [] test = "False" ->
                  /\ csvimp' = [csvimp EXCEPT !.i = @ + 1]
                  /\ UNCHANGED csvtable
             [] test = "ValueError" ->
                  /\ csvimp' = [csvimp EXCEPT !.pc = "raised", !.exc = "ValueError"]
                  /\ UNCHANGED csvtable
    /\ UNCHANGED <<rlsVars, sh, jobVars, cacheVars, wsVars, rateVars, lokiVars, tilerVars, listVars, sourceVars, projectVars, keycloakVars, accountVars, etlVars, searchVars, enrichVars, shapefileVars, geojsonVars, singletonVars, uploadVars>>

\* chunked_bulk_create(Geometry, geometries): bulk_create inserts the
\* instances with the primary keys they carry; a key the table has already
\* is refused with IntegrityError and the chunk's transaction is rolled
\* back.  Up to 500 instances are one chunk.
CsvBulkCreate ==
    /\ csvimp.pc = "rows"
    /\ csvimp.i > Len(csvimp.rows)
    /\ IF \E k \in 1..Len(csvimp.geometries) :
             csvimp.geometries[k].pk \in 1..Len(csvtable)
       THEN /\ csvimp' = [csvimp EXCEPT !.pc = "raised", !.exc = "IntegrityError"]
            /\ UNCHANGED csvtable
       ELSE /\ csvimp' = [csvimp EXCEPT !.pc = "done"]
            /\ csvtable' = csvtable \o [k \in 1..Len(csvimp.geometries) |->
                                            csvimp.geometries[k].row]
    /\ UNCHANGED <<rlsVars, sh, jobVars, cacheVars, wsVars, rateVars, lokiVars, tilerVars, listVars, sourceVars, projectVars, keycloakVars, accountVars, etlVars, searchVars, enrichVars, shapefileVars, geojsonVars, singletonVars, uploadVars>>

NextCsv ==
    \/ \E file \in CsvFiles : CsvImportBegin(file)
    \/ CsvRow
    \/ CsvBulkCreate

(***************************************************************************)
(* C25.  After the CSV import command has run on a file, the target Source *)
(* has exactly one new Geometry per CSV row with non-blank latitude and    *)
(* longitude and none for rows with blank coordinates: no row is inserted  *)
(* twice and no valid row is missing.                                      *)
(***************************************************************************)
C25_OneGeometryPerValidRow ==
    csvimp.pc \in {"done", "raised"} =>
        \A r \in 1..Len(csvimp.rows) :
            Len(SelectSeq(csvtable, LAMBDA g : g = r))
              = IF csvimp.rows[r] = "valid" THEN 1 ELSE 0

-----------------------------------------------------------------------------
(***************************************************************************)
(* The stored function generate_geojson_feature_collection_v3              *)
(* (alembic/versions/001_create_martin_functions.py) and the monolith's    *)
(* GeoJSON endpoint that calls it (GeometryAPIView.get, core/views.py).    *)
(*                                                                         *)
(* core_geometry holds the features of source 1, known by their gid.  A    *)
(* bbox text is one of two well-formed envelopes or a text that is not     *)
(* four comma-separated numbers.                                           *)
(***************************************************************************)
MaxGeoFeatures == 2

DefaultFeatureLimit == 10000

GeoSources == {1}

WellFormedBboxes == {"0,0,1,1", "0,0,9,9"}

BboxTexts == WellFormedBboxes \cup {"2"}

FeatureLimits == {1, 2, DefaultFeatureLimit}

\* ST_Intersects(cg.geom, envelope): the features inside each envelope.
Intersecting(bbox, rows) ==
    IF bbox = "0,0,1,1" THEN rows \cap {1} ELSE rows

NoGeojsonCall ==
    [pc |-> "none", bbox |-> None, feature_limit |-> 0, executed |-> FALSE,
     limit_bound |-> None, status |-> None, features |-> {}]

NoWfsResponse == [status |-> 0, features |-> {}, cached |-> FALSE]

InitGeojson ==
    /\ features = {}
    /\ gj = NoGeojsonCall
    /\ wfs = NoWfsResponse
    /\ gjcache = <<>>

\* EXECUTE query USING source_idq, bbox_geom, feature_limit: placeholder $n
\* of the query text is the n-th expression of this list.
UsingList == <<"source_idq", "bbox_geom", "feature_limit">>

UsingType(expr) == IF expr = "bbox_geom" THEN "geometry" ELSE "integer"

\* params holds source_idq, and bbox_geom when a bbox was given; the query
\* ends in ' LIMIT $' || (array_length(params, 1) + 1).
LimitPlaceholder(bbox) == (IF bbox # None THEN 2 ELSE 1) + 1

\* The outcomes of one call of the function.  A bbox is parsed with
\* split_part(...)::float, which raises on a missing component.  The
\* argument of LIMIT has to be coercible to bigint, which a geometry is not.
\* LIMIT n without ORDER BY keeps any n of the matching rows.
GenerateGeojsonFeatureCollectionV3(source_idq, bbox, feature_limit, rows) ==
    IF bbox # None /\ bbox \notin WellFormedBboxes
    THEN {[NoGeojsonCall EXCEPT !.pc = "called", !.bbox = bbox,
              !.feature_limit = feature_limit, !.status = "error"]}
    ELSE LET bound == UsingList[LimitPlaceholder(bbox)]
             call  == [NoGeojsonCall EXCEPT !.pc = "called", !.bbox = bbox,
                          !.feature_limit = feature_limit,
                          !.executed = TRUE, !.limit_bound = bound]
             of_source == IF source_idq \in GeoSources THEN rows ELSE {}
             matching  == IF bbox # None THEN Intersecting(bbox, of_source)
                          ELSE of_source
         IN  IF UsingType(bound) # "integer"
             THEN {[call EXCEPT !.status = "error"]}
             ELSE {[call EXCEPT !.status = "ok", !.features = kept] :
                     kept \in {s \in SUBSET matching :
                                 \/ Cardinality(s) = feature_limit
                                 \/ /\ s = matching
                                    /\ Cardinality(s) <= feature_limit}}

\* A Geometry row of source 1 is inserted.
FeatureInserted ==
    /\ Cardinality(features) < MaxGeoFeatures
    /\ features' = features \cup {Cardinality(features) + 1}
    /\ UNCHANGED <<gj, wfs, gjcache, rlsVars, sh, jobVars, cacheVars, wsVars, rateVars, lokiVars, tilerVars, listVars, sourceVars, projectVars, keycloakVars, accountVars, etlVars, searchVars, enrichVars, shapefileVars, csvVars, singletonVars, uploadVars>>

\* SELECT generate_geojson_feature_collection_v3(source, bbox, limit).
GenerateGeojsonCall(source_idq, bbox, feature_limit) ==
    /\ \E out \in GenerateGeojsonFeatureCollectionV3(source_idq, bbox,
                                                     feature_limit, features) :
          gj' = out
    /\ UNCHANGED <<features, wfs, gjcache, rlsVars, sh, jobVars, cacheVars, wsVars, rateVars, lokiVars, tilerVars, listVars, sourceVars, projectVars, keycloakVars, accountVars, etlVars, searchVars, enrichVars, shapefileVars, csvVars, singletonVars, uploadVars>>

ViewSourceIds == {0, 1, 2}

ViewBboxes == {"", "0,0,9,9", "2"}

ViewLimits == {"default", "1", ""}

\* The positional arguments the view sends: source_id, then bbox if given,
\* then limit if truthy.  The default limit is the int 10000, a limit of the
\* query string is a str.  With one argument bbox and feature_limit take
\* their defaults; with two the second one is the bbox: a str is taken as its
\* text and an int matches no signature of the function.
ViewArguments(bbox, limit) ==
    LET given == (IF bbox # "" THEN <<bbox>> ELSE <<>>)
                   \o (IF limit # "" THEN <<limit>> ELSE <<>>)
    IN  IF Len(given) = 0
        THEN [resolved |-> TRUE, bbox |-> None,
              feature_limit |-> DefaultFeatureLimit]
        ELSE IF Len(given) = 1
        THEN [resolved |-> given[1] # "default",
              bbox |-> given[1], feature_limit |-> DefaultFeatureLimit]
        ELSE [resolved |-> TRUE, bbox |-> given[1],
              feature_limit |-> IF given[2] = "default"
                                THEN DefaultFeatureLimit ELSE 1]

\* GeometryAPIView.get: 400 without source_id (0), 404 for an unknown source,
\* the cached collection on a hit, otherwise the function's result, cached
\* for five minutes; 500 on any exception.
GeometryAPIViewGet(source_id, bbox, limit) ==
    LET cache_key == <<source_id, bbox, limit>>
        args == ViewArguments(bbox, limit)
    IN  IF source_id = 0
        THEN /\ wfs' = [NoWfsResponse EXCEPT !.status = 400]
             /\ UNCHANGED <<features, gj, gjcache, rlsVars, sh, jobVars, cacheVars, wsVars, rateVars, lokiVars, tilerVars, listVars, sourceVars, projectVars, keycloakVars, accountVars, etlVars, searchVars, enrichVars, shapefileVars, csvVars, singletonVars, uploadVars>>
        ELSE IF source_id \notin GeoSources
        THEN /\ wfs' = [NoWfsResponse EXCEPT !.status = 404]
             /\ UNCHANGED <<features, gj, gjcache, rlsVars, sh, jobVars, cacheVars, wsVars, rateVars, lokiVars, tilerVars, listVars, sourceVars, projectVars, keycloakVars, accountVars, etlVars, searchVars, enrichVars, shapefileVars, csvVars, singletonVars, uploadVars>>
        ELSE IF cache_key \in DOMAIN gjcache
        THEN /\ wfs' = [status |-> 200, features |-> gjcache[cache_key],
                        cached |-> TRUE]
             /\ UNCHANGED <<features, gj, gjcache, rlsVars, sh, jobVars, cacheVars, wsVars, rateVars, lokiVars, tilerVars, listVars, sourceVars, projectVars, keycloakVars, accountVars, etlVars, searchVars, enrichVars, shapefileVars, csvVars, singletonVars, uploadVars>>
        ELSE IF ~args.resolved
        THEN /\ wfs' = [NoWfsResponse EXCEPT !.status = 500]
             /\ UNCHANGED <<features, gj, gjcache, rlsVars, sh, jobVars, cacheVars, wsVars, rateVars, lokiVars, tilerVars, listVars, sourceVars, projectVars, keycloakVars, accountVars, etlVars, searchVars, enrichVars, shapefileVars, csvVars, singletonVars, uploadVars>>
        ELSE \E out \in GenerateGeojsonFeatureCollectionV3(
                            source_id, args.bbox, args.feature_limit, features) :
                /\ gj' = out
                /\ IF out.status = "ok"
                   THEN /\ wfs' = [status |-> 200, features |-> out.features,
                                   cached |-> FALSE]
                        /\ gjcache' = (cache_key :> out.features) @@ gjcache
                   ELSE /\ wfs' = [NoWfsResponse EXCEPT !.status = 500]
                        /\ UNCHANGED gjcache
                /\ UNCHANGED <<features, rlsVars, sh, jobVars, cacheVars, wsVars, rateVars, lokiVars, tilerVars, listVars, sourceVars, projectVars, keycloakVars, accountVars, etlVars, searchVars, enrichVars, shapefileVars, csvVars, singletonVars, uploadVars>>

\* A cached collection reaches its timeout of 60 * 5 seconds.
GeojsonCacheExpire(cache_key) ==
    /\ cache_key \in DOMAIN gjcache
    /\ gjcache' = [k \in DOMAIN gjcache \ {cache_key} |-> gjcache[k]]
    /\ UNCHANGED <<features, gj, wfs, rlsVars, sh, jobVars, cacheVars, wsVars, rateVars, lokiVars, tilerVars, listVars, sourceVars, projectVars, keycloakVars, accountVars, etlVars, searchVars, enrichVars, shapefileVars, csvVars, singletonVars, uploadVars>>

NextGeojson ==
    \/ FeatureInserted
    \/ \E bbox \in {None} \cup BboxTexts, feature_limit \in FeatureLimits :
          GenerateGeojsonCall(1, bbox, feature_limit)
    \/ \E source_id \in ViewSourceIds, bbox \in ViewBboxes, limit \in ViewLimits :
          GeometryAPIViewGet(source_id, bbox, limit)
    \/ \E cache_key \in DOMAIN gjcache : GeojsonCacheExpire(cache_key)

(***************************************************************************)
(* C27.  Every call of generate_geojson_feature_collection_v3 that runs    *)
(* its query binds the LIMIT placeholder to feature_limit and returns at   *)
(* most feature_limit features, with a bbox and with a null bbox.          *)
(***************************************************************************)
C27_LimitBoundToFeatureLimit ==
    gj.executed =>
        /\ gj.limit_bound = "feature_limit"
        /\ gj.status = "ok"
        /\ Cardinality(gj.features) <= gj.feature_limit

-----------------------------------------------------------------------------
(***************************************************************************)
(* The module-level cache singleton (core/cache.py, get_cache and          *)
(* close_cache).                                                           *)
(*                                                                         *)
(* Both are coroutines of one event loop: a call runs alone from one await *)
(* to the next and other calls run while it waits.  get_cache waits in     *)
(* connect() for the ping; close_cache waits in disconnect() for the       *)
(* client to close and for the pool to disconnect.  RedisCache instances   *)
(* are numbered in the order of their creation; 0 stands for None.         *)
(***************************************************************************)
MaxInstances == 2

MaxGetters == 2

MaxClosers == 2

Getters == 1..MaxGetters

Closers == 1..MaxClosers

NoGetCall == [pc |-> "idle", inst |-> 0, ret |-> 0, ret_disconnected |-> FALSE]

NoCloseCall == [pc |-> "idle", inst |-> 0]

InitSingleton ==
    /\ _cache = 0
    /\ instances = <<>>
    /\ getcalls = [c \in Getters |-> NoGetCall]
    /\ closecalls = [k \in Closers |-> NoCloseCall]
    /\ created_since_close = 0

\* RedisCache.connect up to its await: the pool and the client are made.
ConnectBegin == [client |-> "open", pool |-> "open"]

\* What a get_cache call returns: the value of the global at that moment.
ReturnCache(call, current, insts) ==
    [call EXCEPT !.pc = "returned", !.ret = current,
                 !.ret_disconnected =
                     current # 0 /\ insts[current].pool = "disconnected"]

\* get_cache up to its first await: with no instance it makes one, binds
\* the global to it and waits for the ping of connect(); with an instance
\* it returns the global.
GetCacheBegin(c) ==
    /\ getcalls[c].pc \in {"idle", "returned"}
    /\ IF _cache = 0
       THEN /\ Len(instances) < MaxInstances
            /\ instances' = Append(instances, ConnectBegin)
            /\ _cache' = Len(instances) + 1
            /\ getcalls' = [getcalls EXCEPT ![c] =
                  [NoGetCall EXCEPT !.pc = "ping", !.inst = Len(instances) + 1]]
            /\ created_since_close' = created_since_close + 1
       ELSE /\ getcalls' = [getcalls EXCEPT ![c] =
                  ReturnCache(NoGetCall, _cache, instances)]
            /\ UNCHANGED <<_cache, instances, created_since_close>>
    /\ UNCHANGED <<closecalls, rlsVars, sh, jobVars, cacheVars, wsVars, rateVars, lokiVars, tilerVars, listVars, sourceVars, projectVars, keycloakVars, accountVars, etlVars, searchVars, enrichVars, shapefileVars, csvVars, geojsonVars, uploadVars>>

\* The ping comes back: on RedisError connect() sets _client to None.  Then
\* get_cache returns the global _cache.
PingReturns(c, outcome) ==
    /\ getcalls[c].pc = "ping"
    /\ instances' = IF outcome = "RedisError"
                    THEN [instances EXCEPT ![getcalls[c].inst].client = "None"]
                    ELSE instances
    /\ getcalls' = [getcalls EXCEPT ![c] = ReturnCache(@, _cache, instances')]
    /\ UNCHANGED <<_cache, closecalls, created_since_close, rlsVars, sh, jobVars, cacheVars, wsVars, rateVars, lokiVars, tilerVars, listVars, sourceVars, projectVars, keycloakVars, accountVars, etlVars, searchVars, enrichVars, shapefileVars, csvVars, geojsonVars, uploadVars>>

\* What the last step of close_cache does once disconnect() returned.
CloseReturns(k) ==
    /\ _cache' = 0
    /\ closecalls' = [closecalls EXCEPT ![k] = NoCloseCall]
    /\ created_since_close' = 0

\* close_cache up to its first await: nothing to do without an instance;
\* else disconnect() of the instance waits for the client to close, or, the
\* client being None, for the pool to disconnect.
CloseCacheBegin(k) ==
    /\ closecalls[k].pc = "idle"
    /\ _cache # 0
    /\ closecalls' = [closecalls EXCEPT ![k] =
          [pc |-> IF instances[_cache].client # "None"
                  THEN "client_close" ELSE "pool_disconnect",
           inst |-> _cache]]
    /\ UNCHANGED <<_cache, instances, getcalls, created_since_close, rlsVars, sh, jobVars, cacheVars, wsVars, rateVars, lokiVars, tilerVars, listVars, sourceVars, projectVars, keycloakVars, accountVars, etlVars, searchVars, enrichVars, shapefileVars, csvVars, geojsonVars, uploadVars>>

\* close_cache on no instance: `if _cache:` is false and the call returns.
CloseCacheNothing(k) ==
    /\ closecalls[k].pc = "idle"
    /\ _cache = 0
    /\ created_since_close' = 0
    /\ UNCHANGED <<_cache, instances, getcalls, closecalls, rlsVars, sh, jobVars, cacheVars, wsVars, rateVars, lokiVars, tilerVars, listVars, sourceVars, projectVars, keycloakVars, accountVars, etlVars, searchVars, enrichVars, shapefileVars, csvVars, geojsonVars, uploadVars>>

\* await self._client.close() is over; the pool is there, its disconnect
\* is awaited.
ClientClosed(k) ==
    /\ closecalls[k].pc = "client_close"
    /\ instances' = [instances EXCEPT ![closecalls[k].inst].client =
                        IF @ = "None" THEN @ ELSE "closed"]
    /\ closecalls' = [closecalls EXCEPT ![k].pc = "pool_disconnect"]
    /\ UNCHANGED <<_cache, getcalls, created_since_close, rlsVars, sh, jobVars, cacheVars, wsVars, rateVars, lokiVars, tilerVars, listVars, sourceVars, projectVars, keycloakVars, accountVars, etlVars, searchVars, enrichVars, shapefileVars, csvVars, geojsonVars, uploadVars>>

\* await self._pool.disconnect() is over, disconnect() returns and
\* close_cache sets the global to None.
PoolDisconnected(k) ==
    /\ closecalls[k].pc = "pool_disconnect"
    /\ instances' = [instances EXCEPT ![closecalls[k].inst].pool = "disconnected"]
    /\ CloseReturns(k)
    /\ UNCHANGED <<getcalls, rlsVars, sh, jobVars, cacheVars, wsVars, rateVars, lokiVars, tilerVars, listVars, sourceVars, projectVars, keycloakVars, accountVars, etlVars, searchVars, enrichVars, shapefileVars, csvVars, geojsonVars, uploadVars>>

NextSingleton ==
    \/ \E c \in Getters : GetCacheBegin(c)
    \/ \E c \in Getters, outcome \in {"pong", "RedisError"} :
          PingReturns(c, outcome)
    \/ \E k \in Closers : CloseCacheBegin(k)
    \/ \E k \in Closers : CloseCacheNothing(k)
    \/ \E k \in Closers : ClientClosed(k)
    \/ \E k \in Closers : PoolDisconnected(k)

(***************************************************************************)
(* C29.  Whatever the interleaving of get_cache and close_cache calls,     *)
(* every get_cache call that returned returned an instance and not None,   *)
(* at most one instance was created since the last close_cache, and the    *)
(* instance returned was not one that close_cache had disconnected.        *)
(***************************************************************************)
C29_SingletonUnderInterleaving ==
    /\ \A c \in Getters :
         getcalls[c].pc = "returned"
            => /\ getcalls[c].ret # 0
               /\ ~getcalls[c].ret_disconnected
    /\ created_since_close <= 1

-----------------------------------------------------------------------------
(***************************************************************************)
(* Upload endpoints of the ETL service (etl-service/app/routes/tasks.py).  *)
(*                                                                         *)
(* A request carries a file name and the bytes of the file.  The three     *)
(* endpoints differ in the task_type and the form fields they store; each  *)
(* stages the file with save_upload and then commits a Task.  A request    *)
(* waits when it opens the file, when it writes it and when it commits.    *)
(* Nothing in the service takes a Task out of PENDING.                     *)
(***************************************************************************)
MaxUploads == 2

Uploads == 1..MaxUploads

UPLOAD_DIR == "/tmp/uploads"

Filenames == {"roads.zip", "parcels.zip"}

Contents == {<<1>>, <<2, 2>>}

ImportEndpoints == {"shapefile_import", "csv_import", "geojson_import"}

\* os.path.join(settings.UPLOAD_DIR, file.filename)
UploadPath(filename) == <<UPLOAD_DIR, filename>>

UploadPaths == {UploadPath(f) : f \in Filenames}

NoUpload == [pc |-> "idle", task_type |-> None, path |-> <<>>, content |-> <<>>]

InitUploads ==
    /\ disk = [p \in UploadPaths |-> <<>>]
    /\ uploads = [r \in Uploads |-> NoUpload]
    /\ task_rows = <<>>

\* f.write(content) on a file opened with "wb": the bytes go to the start
\* of the file and what the file holds beyond them stays.
WriteAtStart(file, content) ==
    content \o SubSeq(file, Len(content) + 1, Len(file))

\* An endpoint is called and save_upload opens the path with "wb": the file
\* is created or truncated.
SaveUploadOpen(r, task_type, filename, content) ==
    /\ uploads[r].pc = "idle"
    /\ uploads' = [uploads EXCEPT ![r] =
          [pc |-> "opened", task_type |-> task_type,
           path |-> UploadPath(filename), content |-> content]]
    /\ disk' = [disk EXCEPT ![UploadPath(filename)] = <<>>]
    /\ UNCHANGED <<task_rows, rlsVars, sh, jobVars, cacheVars, wsVars, rateVars, lokiVars, tilerVars, listVars, sourceVars, projectVars, keycloakVars, accountVars, etlVars, searchVars, enrichVars, shapefileVars, csvVars, geojsonVars, singletonVars>>

\* content = await file.read(); await f.write(content); the file is closed.
SaveUploadWrite(r) ==
    /\ uploads[r].pc = "opened"
    /\ disk' = [disk EXCEPT ![uploads[r].path] = WriteAtStart(@, uploads[r].content)]
    /\ uploads' = [uploads EXCEPT ![r].pc = "staged"]
    /\ UNCHANGED <<task_rows, rlsVars, sh, jobVars, cacheVars, wsVars, rateVars, lokiVars, tilerVars, listVars, sourceVars, projectVars, keycloakVars, accountVars, etlVars, searchVars, enrichVars, shapefileVars, csvVars, geojsonVars, singletonVars>>

\* The Task is added with status PENDING and params.file_path, and
\* committed; the endpoint returns it.
CreateTask(r) ==
    /\ uploads[r].pc = "staged"
    /\ task_rows' = Append(task_rows, [task_type |-> uploads[r].task_type,
                               status |-> "pending",
                               file_path |-> uploads[r].path,
                               request |-> r])
    /\ uploads' = [uploads EXCEPT ![r].pc = "returned"]
    /\ UNCHANGED <<disk, rlsVars, sh, jobVars, cacheVars, wsVars, rateVars, lokiVars, tilerVars, listVars, sourceVars, projectVars, keycloakVars, accountVars, etlVars, searchVars, enrichVars, shapefileVars, csvVars, geojsonVars, singletonVars>>

NextUploads ==
    \/ \E r \in Uploads, task_type \in ImportEndpoints, filename \in Filenames,
          content \in Contents : SaveUploadOpen(r, task_type, filename, content)
    \/ \E r \in Uploads : SaveUploadWrite(r)
    \/ \E r \in Uploads : CreateTask(r)

(***************************************************************************)
(* C30.  The file at the file_path of every pending Task holds exactly the *)
(* bytes uploaded in the request that created the Task, also when another  *)
(* upload with the same file name runs at the same time or afterwards.     *)
(***************************************************************************)
C30_StagedFileIsTheUpload ==
    \A t \in 1..Len(task_rows) :
        task_rows[t].status = "pending"
           => disk[task_rows[t].file_path] = uploads[task_rows[t].request].content

-----------------------------------------------------------------------------
Init ==
    /\ InitRLS
    /\ InitSH
    /\ InitJobs
    /\ InitCache
    /\ InitWS
    /\ InitRate
    /\ InitLoki
    /\ InitTiler
    /\ InitLists
    /\ InitSources
    /\ InitProjects
    /\ InitKeycloak
    /\ InitAccounts
    /\ InitEtl
    /\ InitSearch
    /\ InitEnrich
    /\ InitShapefile
    /\ InitCsv
    /\ InitGeojson
    /\ InitSingleton
    /\ InitUploads

SpecRLS == Init /\ [][NextRLS]_vars

SpecSH == Init /\ [][NextSH]_vars

SpecJobs == Init /\ [][NextJobs]_vars

SpecJobsLifecycle == Init /\ [][NextJobsLifecycle]_vars

SpecCache == Init /\ [][NextCache]_vars

SpecWS == Init /\ [][NextWS]_vars

SpecRate == Init /\ [][NextRate]_vars

SpecLoki == Init /\ [][NextLoki]_vars

SpecTiler == Init /\ [][NextTiler]_vars

SpecLists == Init /\ [][NextLists]_vars

SpecSources == Init /\ [][NextSources]_vars

SpecProjects == Init /\ [][NextProjects]_vars

SpecKeycloak == Init /\ [][NextKeycloak]_vars

SpecAccounts == Init /\ [][NextAccounts]_vars

SpecEtl == Init /\ [][NextEtl]_vars

SpecSearch == Init /\ [][NextSearch]_vars

SpecEnrich == Init /\ [][NextEnrich]_vars

SpecShapefile == Init /\ [][NextShapefile]_vars

SpecCsv == Init /\ [][NextCsv]_vars

SpecGeojson == Init /\ [][NextGeojson]_vars

SpecSingleton == Init /\ [][NextSingleton]_vars

SpecUploads == Init /\ [][NextUploads]_vars

Spec == SpecRLS

=============================================================================
